---- MODULE Spec2Model ----
(***************************************************************************)
(* Model of the solution request engine of distil                          *)
(* (api/compute/solution_request.go and the compute client it drives).     *)
(*                                                                         *)
(* One SolutionRequest is modelled: the task that runs PersistAndDispatch  *)
(* and then dispatchRequest, one task per solution handler started by      *)
(* Client.SearchSolutions, the subscriber calling Listen, and the          *)
(* listenOnStatusChannel goroutines.  Every storage write and every        *)
(* channel send or receive is one step; consecutive RPCs of one task that  *)
(* touch nothing shared are one step.  (Spec)                              *)
(*                                                                         *)
(* Smaller specifications stand beside it, each with variables of its own  *)
(* that the others leave alone:                                            *)
(*   ScratchSpec  requests running PersistAndDispatch at the same time     *)
(*                against one scratch directory;                           *)
(*   FilterSpec   one query of the postgres data store, from the filters   *)
(*                to the rows selected (api/model/storage/postgres);       *)
(*   ResultSpec   PersistResult called repeatedly for one result file;     *)
(*   ExtremaSpec  the buckets of a numerical histogram and the residuals   *)
(*                histogram built on them;                                 *)
(*   ParserSpec   one cell of a result file parsed as a nested array;      *)
(*   BuilderSpec  a pipeline description builder, its steps and Compile;   *)
(*   StartupSpec  the wait for the required services in main;              *)
(*   SubmitSpec   one call of PersistAndDispatch up to the pending         *)
(*                request, with the lookup of the target variable;         *)
(*   SetTypeSpec  the handler that sets the type of a variable in the      *)
(*                data store and in the catalogue.                         *)
(***************************************************************************)
EXTENDS Integers, Sequences, FiniteSets, TLC

\* ------------------------------------------------------------------ bounds
\* responses pulled from the search stream (each may start a handler)
MaxPulls == 2
\* distinct solution ids the runtime can emit
NumIds == 2
\* disturbances of one run: storage writes and RPCs that fail, the user's stop
MaxFaults == 1
\* requests running at the same time in ScratchSpec
NumRequests == 2
\* produce responses handled by one solution
MaxResponses == 1
\* filters in the api.FilterParams of one query
MaxFilters == 3
\* the row cap of a query that has one
MaxSize == 1
\* data records of a result csv file
MaxRecords == 2
\* PersistResult calls made for one result file
MaxIngests == 2

\* --------------------------------------------------------------- constants
SolutionPendingStatus == "SOLUTION_PENDING"
SolutionRunningStatus == "SOLUTION_RUNNING"
SolutionErroredStatus == "SOLUTION_ERRORED"
SolutionCompletedStatus == "SOLUTION_COMPLETED"
RequestPendingStatus == "REQUEST_PENDING"
RequestRunningStatus == "REQUEST_RUNNING"
RequestErroredStatus == "REQUEST_ERRORED"
RequestCompletedStatus == "REQUEST_COMPLETED"

\* thousandths in one: the resolution of the numbers of ExtremaSpec
Unit == 1000
\* the deepest nesting and the most items of one array in a cell of ParserSpec
MaxDepth == 3
MaxItems == 2
\* StepData objects of the caller, steps one builder takes, Compile calls made
NumSteps == 2
MaxSteps == 2
MaxCompiles == 2
\* the greatest config.ServiceRetryCount tried in StartupSpec
MaxRetryCount == 3

\* the variables of the dataset a request is submitted for, at most
MaxVariables == 2

\* the calls of the type handler in one run, at most
MaxSetTypes == 2
\* rows of the result whose residuals histogram is built
MaxRows == 2
\* the residuals and the extrema tried, in thousandths
ExtremaValues == {-150000, -5000, -100, 0, 100, 500, 10000, 10100, 101000, 150000}

\* api/model: the most buckets a numerical histogram is meant to have
maxNumBuckets == 50

\* main: the attempts to reach postgres at startup
defaultPGRetries == 100

\* a status channel that buffers two statuses
twoStatusChannel == 1 + 1
\* capacity of a status channel: make(chan SolutionStatus, 1)
newStatusChannel == 1

Tasks == 1..MaxPulls
SolutionIds == 1..NumIds
\* channel 0 is s.requestChannel, channel t is the channel of handler t
Channels == 0..MaxPulls

VARIABLES
    reqPc,            \* position of the PersistAndDispatch / dispatchRequest task
    reqSend,          \* status the request task is about to publish
    reqNext,          \* where the request task continues after publishing
    search,           \* client.SearchSolutions: "not_called", "running", "returned_nil",
                      \* "returned_err"
    pulls,            \* responses received from the search stream so far
    reqStore,         \* request table: the progress values inserted and the latest of them
    solStore,         \* solution table, per solution id: the same
    resultStore,      \* solution ids whose result metadata row was written
    rowStore,         \* solution ids whose result rows were written by PersistResult
    tasks,            \* per handler: its position and locals
    chans,            \* per channel: buffered statuses
    published,        \* per channel: the status sent last ("" before the first send)
    listener,         \* s.listener != nil
    listenPc,         \* position of the task calling Listen
    readers,          \* per channel: listenOnStatusChannel goroutines started
    held,             \* per channel: statuses received and not yet passed to the listener
    solutionChannels, \* s.solutionChannels
    swg,              \* s.wg counter
    cwg,              \* wg of Client.SearchSolutions
    endSearch,        \* "no", or "returned" once client.EndSearch has returned
    stopSearch,       \* "no", or how client.StopSearch was issued: "idle", "in_flight"
    faults,           \* disturbances injected so far
    \* ---- concurrent requests and the scratch directory (ScratchSpec)
    persisting,       \* per request: its position in PersistAndDispatch and s.Dataset
    scratchDir,       \* artefacts in the scratch directory: output path and writer
    \* ---- one query of the data store (FilterSpec)
    filterParams,     \* the api.FilterParams of the query: Filters and Size
    fetched,          \* the last query made with them and what it returned
    \* ---- ingestion of one result file (ResultSpec)
    resultCsv,        \* the data records of the csv file at resultURI
    resultTable,      \* the result table: its rows in insertion order, and its schema
    ingest,           \* the PersistResult calls made for the file and the running one
    \* ---- the residuals histogram of one result (ExtremaSpec)
    targetType,       \* the type of the result's target variable
    residuals,        \* predicted minus true value, over the rows of the result
    extrema,          \* what FetchResidualsExtremaByURI returned last
    histogram,        \* the last FetchResidualsSummary call and the buckets it built
    \* ---- one cell of a result file parsed as an array (ParserSpec)
    written,          \* the nested array the runtime wrote into the cell
    Buffer,           \* the text of the cell
    field,            \* the ComplexField parsing it: tokens left to execute, elements, stack
    \* ---- one pipeline description builder and the steps of its caller (BuilderSpec)
    stepData,         \* the caller's StepData objects, by reference
    builder,          \* the builder: p.steps, references in the order added
    compiled,         \* the Compile calls made and what the last one returned
    \* ---- the wait for the required services at startup (StartupSpec)
    startup,          \* main: which main runs, where it is, the loop counter and the attempts made
    \* ---- PersistAndDispatch up to the pending request (SubmitSpec)
    submission,       \* one call of PersistAndDispatch: its inputs, position and effects
    \* ---- one variable's type under VariableTypeHandler (SetTypeSpec)
    retyping          \* the type the data store and the catalogue hold for the variable, and the handler call in progress

scratchVars == <<persisting, scratchDir>>
filterVars == <<filterParams, fetched>>
resultVars == <<resultCsv, resultTable, ingest>>
extremaVars == <<targetType, residuals, extrema, histogram>>
parserVars == <<written, Buffer, field>>
builderVars == <<stepData, builder, compiled>>
startupVars == <<startup>>
submitVars == <<submission>>
setTypeVars == <<retyping>>

\* the variables of the specifications beside the engine's
sideVars == <<scratchVars, filterVars, resultVars, extremaVars,
             parserVars, builderVars, startupVars, submitVars, setTypeVars>>

vars == <<reqPc, reqSend, reqNext, search, pulls, reqStore, solStore, resultStore,
          rowStore, tasks, chans, published, listener, listenPc, readers,
          held, solutionChannels, swg, cwg, endSearch, stopSearch, faults,
          sideVars>>

engineVars == <<reqPc, reqSend, reqNext, search, pulls, reqStore, solStore,
                resultStore, rowStore, tasks, chans, published, listener, listenPc,
                readers, held, solutionChannels, swg, cwg, endSearch, stopSearch,
                faults>>

\* what the steps of one side specification leave alone
outsideScratch == <<engineVars, filterVars, resultVars, extremaVars,
                    parserVars, builderVars, startupVars, submitVars,
                    setTypeVars>>
outsideFilter == <<engineVars, scratchVars, resultVars, extremaVars,
                   parserVars, builderVars, startupVars, submitVars,
                    setTypeVars>>
outsideResult == <<engineVars, scratchVars, filterVars, extremaVars,
                   parserVars, builderVars, startupVars, submitVars,
                    setTypeVars>>
outsideExtrema == <<engineVars, scratchVars, filterVars, resultVars,
                    parserVars, builderVars, startupVars, submitVars,
                    setTypeVars>>
outsideParser == <<engineVars, scratchVars, filterVars, resultVars,
                   extremaVars, builderVars, startupVars, submitVars,
                    setTypeVars>>
outsideBuilder == <<engineVars, scratchVars, filterVars, resultVars,
                    extremaVars, parserVars, startupVars, submitVars,
                    setTypeVars>>
outsideStartup == <<engineVars, scratchVars, filterVars, resultVars,
                    extremaVars, parserVars, builderVars, submitVars,
                    setTypeVars>>
outsideSubmit == <<engineVars, scratchVars, filterVars, resultVars,
                   extremaVars, parserVars, builderVars, startupVars,
                   setTypeVars>>
outsideSetType == <<engineVars, scratchVars, filterVars, resultVars, extremaVars,
                    parserVars, builderVars, startupVars, submitVars>>

reqVars == <<reqPc, reqSend, reqNext, search, pulls>>
storeVars == <<reqStore, solStore, resultStore, rowStore>>
busVars == <<chans, published, readers, held>>
listenVars == <<listener, listenPc, solutionChannels>>

\* concurrent requests of ScratchSpec
Requests == 1..NumRequests
Datasets == {"d1", "d2"}
NoRequest == [pc |-> "new", dataset |-> ""]

\* a table without rows for an id
NoRows == [rows |-> {}, latest |-> ""]

NoTask == [pc |-> "none", sid |-> 0, send |-> "", next |-> "", resp |-> 0,
           rpcErr |-> FALSE]

EngineInit ==
    /\ reqPc = "init"
    /\ reqSend = ""
    /\ reqNext = ""
    /\ search = "not_called"
    /\ pulls = 0
    /\ reqStore = NoRows
    /\ solStore = [i \in SolutionIds |-> NoRows]
    /\ resultStore = {}
    /\ rowStore = {}
    /\ tasks = [t \in Tasks |-> NoTask]
    /\ chans = [c \in Channels |-> <<>>]
    /\ published = [c \in Channels |-> ""]
    /\ listener = FALSE
    /\ listenPc = "idle"
    /\ readers = [c \in Channels |-> 0]
    /\ held = [c \in Channels |-> <<>>]
    /\ solutionChannels = <<>>
    /\ swg = 0
    /\ cwg = 0
    /\ endSearch = "no"
    /\ stopSearch = "no"
    /\ faults = 0

\* no second request is running and the scratch directory is empty
ScratchIdle ==
    /\ persisting = [r \in Requests |-> NoRequest]
    /\ scratchDir = {}

\* no query is being made
NotFetched == [call |-> "none", invert |-> FALSE, err |-> FALSE, rows |-> {},
               wheres |-> <<>>, params |-> <<>>]

FilterIdle ==
    /\ filterParams = [Filters |-> <<>>, Size |-> 0]
    /\ fetched = NotFetched

\* PersistResult has not been called
NotIngesting == [pc |-> "idle", i |-> 0, calls |-> 0, first |-> ""]

ResultIdle ==
    /\ resultCsv = <<>>
    /\ resultTable = [keyed |-> FALSE, rows |-> <<>>]
    /\ ingest = NotIngesting

\* no extrema fetched
NoExtrema == [set |-> FALSE, err |-> FALSE, Type |-> "", Min |-> 0, Max |-> 0]

\* no residuals summary requested
NoHistogram == [state |-> "none", supplied |-> FALSE, used |-> NoExtrema,
                interval |-> 0, Min |-> 0, Max |-> 0, count |-> 0]

ExtremaIdle ==
    /\ targetType = ""
    /\ residuals = {}
    /\ extrema = NoExtrema
    /\ histogram = NoHistogram

\* an array with no element, as a node of a nested array
EmptyArray == [leaf |-> FALSE, text |-> <<>>, items |-> <<>>]

\* parseVal has not been called
NoField == [pc |-> "idle", tokens |-> <<>>, elements |-> <<>>, stack |-> <<>>]

ParserIdle ==
    /\ written = EmptyArray
    /\ Buffer = <<>>
    /\ field = NoField

\* Compile has not been called
NotCompiled == [calls |-> 0, state |-> "none", err |-> "", Steps |-> <<>>,
                Outputs |-> <<>>]

BuilderIdle ==
    /\ stepData = <<>>
    /\ builder = [steps |-> <<>>]
    /\ compiled = NotCompiled

\* main has not been started
NotStarted == [main |-> "", pc |-> "idle", service |-> "", retryCount |-> 0, i |-> 0,
               up |-> FALSE, waited |-> {}, reached |-> {}, attempts |-> 0,
               exitCode |-> 0]

StartupIdle == startup = NotStarted

\* no call of PersistAndDispatch made: targetVariable is a pointer, nil is <<>>
NotSubmitted == [pc |-> "idle", variables |-> <<>>, TargetFeature |-> "",
                 SkipPreprocessing |-> FALSE, targetVariable |-> <<>>,
                 selected |-> <<>>, columnIndex |-> 0, files |-> FALSE,
                 searches |-> 0, pending |-> FALSE, returned |-> ""]

SubmitIdle == submission = NotSubmitted

\* no call of the handler made; store and catalogue hold no type yet
NotRetyping == [pc |-> "idle", dataStore |-> "", catalogue |-> "", typ |-> "",
                old |-> "", calls |-> 0, returned |-> ""]

SetTypeIdle == retyping = NotRetyping

Init ==
    /\ EngineInit
    /\ ScratchIdle
    /\ FilterIdle
    /\ ResultIdle
    /\ ExtremaIdle
    /\ ParserIdle
    /\ BuilderIdle
    /\ StartupIdle
    /\ SubmitIdle
    /\ SetTypeIdle

\* outcomes of a call that can fail: failures are limited to MaxFaults per run
Outcomes == IF faults < MaxFaults THEN {TRUE, FALSE} ELSE {TRUE}
Fault(ok) == faults' = IF ok THEN faults ELSE faults + 1

\* ------------------------------------------------------------------ storage
\* INSERT of one row with created_time now; on failure nothing is written
InsertRow(table, progress, ok) ==
    IF ok THEN [rows |-> table.rows \cup {progress}, latest |-> progress] ELSE table

PersistRequest(progress, ok) == reqStore' = InsertRow(reqStore, progress, ok)

PersistSolution(solutionID, progress, ok) ==
    solStore' = [solStore EXCEPT ![solutionID] = InsertRow(@, progress, ok)]

\* ---------------------------------------------------------------- channels
\* statusChan <- status : blocks while the buffer is full
CanSend(c) == Len(chans[c]) < newStatusChannel

Send(c, status) ==
    /\ CanSend(c)
    /\ chans' = [chans EXCEPT ![c] = Append(@, status)]
    /\ published' = [published EXCEPT ![c] = status]
    /\ UNCHANGED <<readers, held>>


\* ------------------------------------------------------ the request's task
\* PersistAndDispatch up to client.StartSearch: any of the fetches, the split
\* persist, the pipeline synthesis or StartSearch may fail and return err
PersistAndDispatch_StartSearch ==
    /\ reqPc = "init"
    /\ \E ok \in Outcomes :
        /\ Fault(ok)
        /\ reqPc' = IF ok THEN "p_pending" ELSE "returned_err"
    /\ UNCHANGED <<sideVars, stopSearch, reqSend, reqNext, search, pulls, storeVars,
                   tasks, busVars, listenVars, swg, cwg, endSearch>>

\* the call sites of persistRequestStatus: where, with what status, and where
\* the caller goes on after it returned nil or err
RequestStatusCalls ==
    { [pc |-> "p_pending", status |-> RequestPendingStatus,
       okNext |-> "p_features", errNext |-> "returned_err"],
      [pc |-> "d_running", status |-> RequestRunningStatus,
       okNext |-> "d_search", errNext |-> "d_finished"],
      [pc |-> "d_completed", status |-> RequestCompletedStatus,
       okNext |-> "d_wait", errNext |-> "d_wait"] }

\* persistRequestStatus up to the channel send: PersistRequest, and on failure
\* the call of persistRequestError
persistRequestStatus ==
    \E call \in RequestStatusCalls :
        /\ reqPc = call.pc
        /\ \E ok \in Outcomes :
            /\ Fault(ok)
            /\ PersistRequest(call.status, ok)
            /\ IF ok
               THEN /\ reqPc' = "r_send"
                    /\ reqSend' = call.status
                    /\ reqNext' = call.okNext
               ELSE /\ reqPc' = "r_error"
                    /\ reqSend' = reqSend
                    /\ reqNext' = call.errNext
        /\ UNCHANGED <<sideVars, stopSearch, search, pulls, solStore, resultStore,
                       rowStore, tasks, busVars, listenVars, swg, cwg, endSearch>>

\* persistRequestError up to the channel send: the error of PersistRequest is
\* ignored. The write follows a failure and may fail as well, so it is not
\* counted in faults
persistRequestError ==
    /\ reqPc = "r_error"
    /\ \E ok \in BOOLEAN : PersistRequest(RequestErroredStatus, ok)
    /\ reqPc' = "r_send"
    /\ reqSend' = RequestErroredStatus
    /\ UNCHANGED <<sideVars, stopSearch, reqNext, search, pulls, solStore,
                   resultStore, rowStore, tasks, busVars, listenVars, swg, cwg,
                   endSearch, faults>>

\* statusChan <- SolutionStatus{...} of persistRequestStatus / persistRequestError
RequestPublish ==
    /\ reqPc = "r_send"
    /\ Send(0, reqSend)
    /\ reqPc' = reqNext
    /\ reqSend' = ""
    /\ reqNext' = ""
    /\ UNCHANGED <<sideVars, stopSearch, search, pulls, storeVars, tasks,
                   listenVars, swg, cwg, endSearch, faults>>

\* the loop over s.Filters.Variables calling PersistRequestFeature
PersistAndDispatch_Features ==
    /\ reqPc = "p_features"
    /\ \E ok \in Outcomes :
        /\ Fault(ok)
        /\ reqPc' = IF ok THEN "p_filters" ELSE "returned_err"
    /\ UNCHANGED <<sideVars, stopSearch, reqSend, reqNext, search, pulls, storeVars,
                   tasks, busVars, listenVars, swg, cwg, endSearch>>

\* PersistRequestFilters, then go s.dispatchRequest(...) and return nil
PersistAndDispatch_Filters ==
    /\ reqPc = "p_filters"
    /\ \E ok \in Outcomes :
        /\ Fault(ok)
        /\ reqPc' = IF ok THEN "d_running" ELSE "returned_err"
    /\ UNCHANGED <<sideVars, stopSearch, reqSend, reqNext, search, pulls, storeVars,
                   tasks, busVars, listenVars, swg, cwg, endSearch>>

\* Client.SearchSolutions: GetSearchSolutionsResults opens the stream or fails
SearchSolutions_Open ==
    /\ reqPc = "d_search"
    /\ \E ok \in Outcomes :
        /\ Fault(ok)
        /\ IF ok
           THEN /\ reqPc' = "d_pull"
                /\ search' = "running"
                /\ UNCHANGED reqNext
           ELSE \* dispatchRequest: err != nil, persistRequestError
                /\ search' = "returned_err"
                /\ reqPc' = "r_error"
                /\ reqNext' = "d_wait"
    /\ UNCHANGED <<sideVars, stopSearch, reqSend, pulls, storeVars, tasks, busVars,
                   listenVars, swg, cwg, endSearch>>

\* the handler goroutine started for a response: go func() { solutionHandler(..) ; wg.Done() }
StartHandler(t, solutionID) ==
    /\ tasks' = [tasks EXCEPT ![t] = [NoTask EXCEPT !.pc = "s_add", !.sid = solutionID]]
    /\ cwg' = cwg + 1

\* the ids the stream can emit next: one it emitted before (a replay) or the next
\* unused one (ids are interchangeable, so the unused ones are taken in order)
EmittedIds == {tasks[t].sid : t \in {u \in Tasks : tasks[u].pc # "none"}}
EmittableIds == {i \in SolutionIds : i <= Cardinality(EmittedIds) + 1}

\* pullFromAPI(pullMax, pullTimeout, fn) is running: it calls fn again until the
\* stream has ended or the pull has failed
pullFromAPI == reqPc = "d_pull"

\* one Recv of the pull loop that delivers a response
SearchSolutions_Recv ==
    /\ pullFromAPI
    /\ pulls < MaxPulls
    /\ pulls' = pulls + 1
    /\ \/ \* an empty response is ignored
          UNCHANGED <<tasks, cwg>>
       \/ \E solutionID \in EmittableIds : StartHandler(pulls + 1, solutionID)
    /\ UNCHANGED <<sideVars, stopSearch, reqPc, reqSend, reqNext, search, storeVars,
                   busVars, listenVars, swg, endSearch, faults>>

\* Recv returns io.EOF: the pull loop ends and SearchSolutions goes on to wg.Wait()
SearchSolutions_EOF ==
    /\ pullFromAPI
    /\ reqPc' = "d_wgwait"
    /\ UNCHANGED <<sideVars, stopSearch, reqSend, reqNext, search, pulls, storeVars,
                   tasks, busVars, listenVars, swg, cwg, endSearch, faults>>

\* the pull loop fails (transport error, timeout): SearchSolutions returns err at once
SearchSolutions_Error ==
    /\ pullFromAPI
    /\ faults < MaxFaults
    /\ faults' = faults + 1
    /\ search' = "returned_err"
    /\ reqPc' = "r_error"
    /\ reqNext' = "d_wait"
    /\ UNCHANGED <<sideVars, stopSearch, reqSend, pulls, storeVars, tasks, busVars,
                   listenVars, swg, cwg, endSearch>>

\* wg.Wait() of SearchSolutions, then return nil
SearchSolutions_Wait ==
    /\ reqPc = "d_wgwait"
    /\ cwg = 0
    /\ reqPc' = "d_completed"
    /\ search' = "returned_nil"
    /\ UNCHANGED <<sideVars, stopSearch, reqSend, reqNext, pulls, storeVars, tasks,
                   busVars, listenVars, swg, cwg, endSearch, faults>>

\* s.wg.Wait()
waitOnSolutions ==
    /\ reqPc = "d_wait"
    /\ swg = 0
    /\ reqPc' = "d_end"
    /\ UNCHANGED <<sideVars, stopSearch, reqSend, reqNext, search, pulls, storeVars,
                   tasks, busVars, listenVars, swg, cwg, endSearch, faults>>

\* client.EndSearch returns (nil or an error)
EndSearch ==
    /\ reqPc = "d_end"
    /\ \E ok \in Outcomes : Fault(ok)
    /\ endSearch' = "returned"
    /\ reqPc' = "d_finished"
    /\ UNCHANGED <<sideVars, stopSearch, reqSend, reqNext, search, pulls, storeVars,
                   tasks, busVars, listenVars, swg, cwg>>

\* a solution task has been started and has not returned
InFlightTasks == {t \in Tasks : tasks[t].pc \notin {"none", "finished"}}

\* the user's stop of the request arrives while its search is running
StopSolutionRequest == search = "running" /\ stopSearch = "no"

\* client.StopSearch(ctx, searchID): StopSearchSolutions is sent for the search;
\* nothing of the request's task or of the solution tasks reads the outcome.
\* The stop is one of the run's MaxFaults disturbances
StopSearch ==
    /\ StopSolutionRequest
    /\ faults < MaxFaults
    /\ faults' = faults + 1
    /\ stopSearch' = IF InFlightTasks = {} THEN "idle" ELSE "in_flight"
    /\ UNCHANGED <<sideVars, reqVars, storeVars, tasks, busVars, listenVars, swg,
                   cwg, endSearch>>

\* s.finished <- err on the unbuffered channel meets return <-s.finished of Listen
dispatchRequest_Finished ==
    /\ reqPc = "d_finished"
    /\ listenPc = "wait"
    /\ reqPc' = "done"
    /\ listenPc' = "returned"
    /\ UNCHANGED <<sideVars, stopSearch, reqSend, reqNext, search, pulls, storeVars,
                   tasks, busVars, listener, solutionChannels, swg, cwg, endSearch,
                   faults>>

\* ------------------------------------------------------- a solution's task
SetTask(t, r) == tasks' = [tasks EXCEPT ![t] = r]

\* the task goes on to publish status and then continues at next
ThenPublish(tk, status, next) == [tk EXCEPT !.pc = "s_send", !.send = status, !.next = next]

\* the task calls persistSolutionError and its caller continues at next
ThenError(tk, next) == [tk EXCEPT !.pc = "s_error", !.next = next]

\* a compute RPC of the task returned an error: persistSolutionError, then return
RPCFailed(tk) == ThenError([tk EXCEPT !.rpcErr = TRUE], "s_done")

\* s.addSolution(c): wg.Add(1), and under s.mu the channel is appended and, when a
\* listener is set, a listenOnStatusChannel goroutine is started for it
addSolution(t) ==
    /\ tasks[t].pc = "s_add"
    /\ swg' = swg + 1
    /\ solutionChannels' = Append(solutionChannels, t)
    /\ readers' = IF listener THEN [readers EXCEPT ![t] = @ + 1] ELSE readers
    /\ SetTask(t, [tasks[t] EXCEPT !.pc = "s_pending"])
    /\ UNCHANGED <<sideVars, stopSearch, reqVars, storeVars, chans, published, held,
                   listener, listenPc, cwg, endSearch, faults>>

\* the call sites of persistSolutionStatus: the handler passed to SearchSolutions
\* (pending, then dispatchSolution is called whatever happened) and dispatchSolution
\* (running, then the produce call whatever happened)
SolutionStatusCalls ==
    { [pc |-> "s_pending", status |-> SolutionPendingStatus, next |-> "s_score"],
      [pc |-> "s_running", status |-> SolutionRunningStatus, next |-> "s_produce"] }

\* persistSolutionStatus up to the channel send
persistSolutionStatus(t) ==
    \E call \in SolutionStatusCalls :
        /\ tasks[t].pc = call.pc
        /\ \E ok \in Outcomes :
            /\ Fault(ok)
            /\ PersistSolution(tasks[t].sid, call.status, ok)
            /\ SetTask(t, IF ok THEN ThenPublish(tasks[t], call.status, call.next)
                                ELSE ThenError(tasks[t], call.next))
        /\ UNCHANGED <<sideVars, stopSearch, reqVars, reqStore, resultStore,
                       rowStore, busVars, listenVars, swg, cwg, endSearch>>

\* persistSolutionError up to the channel send: the error of PersistSolution is
\* ignored. The write follows a failure and may fail as well, so it is not
\* counted in faults
persistSolutionError(t) ==
    /\ tasks[t].pc = "s_error"
    /\ \E ok \in BOOLEAN : PersistSolution(tasks[t].sid, SolutionErroredStatus, ok)
    /\ SetTask(t, ThenPublish(tasks[t], SolutionErroredStatus, tasks[t].next))
    /\ UNCHANGED <<sideVars, stopSearch, reqVars, reqStore, resultStore, rowStore,
                   busVars, listenVars, swg, cwg, endSearch, faults>>

\* statusChan <- SolutionStatus{...}
SolutionPublish(t) ==
    /\ tasks[t].pc = "s_send"
    /\ Send(t, tasks[t].send)
    /\ SetTask(t, [tasks[t] EXCEPT !.pc = tasks[t].next, !.send = "", !.next = ""])
    /\ UNCHANGED <<sideVars, stopSearch, reqVars, storeVars, listenVars, swg, cwg,
                   endSearch, faults>>

\* where dispatchSolution goes on after persistSolutionError for an empty
\* fittedSolutionID: the if has no return, so on to the running status
AfterNoFittedSolution == "s_running"

\* dispatchSolution from GenerateSolutionScores to the fitted solution id:
\*   "score_failed"  GenerateSolutionScores or a PersistSolutionScore returns an error
\*   "fit_failed"    GenerateSolutionFit returns an error
\*   "no_fitted_id"  no fit result carries a fitted solution id
\*   "fitted"        a fitted solution id was found
dispatchSolution_ScoreFit(t) ==
    /\ tasks[t].pc = "s_score"
    /\ \/ \E ok \in Outcomes, failed \in {"score_failed", "fit_failed"} :
            /\ Fault(ok)
            /\ SetTask(t, IF ok THEN [tasks[t] EXCEPT !.pc = "s_running"]
                                ELSE RPCFailed(tasks[t]))
       \/ /\ SetTask(t, ThenError(tasks[t], AfterNoFittedSolution))
          /\ UNCHANGED faults
    /\ UNCHANGED <<sideVars, stopSearch, reqVars, storeVars, busVars, listenVars,
                   swg, cwg, endSearch>>

\* dispatchSolution: one turn of the loop over predictionResponses
ResponseKinds == {"not_completed", "output_missing", "not_csv_uri", "csv_uri"}

LoopTurn(tk, kind) ==
    CASE kind = "none_left" -> [tk EXCEPT !.pc = "s_done"]
      [] kind = "not_completed" -> [tk EXCEPT !.pc = "s_loop", !.resp = @ + 1]
      [] kind = "csv_uri" -> [tk EXCEPT !.pc = "s_results", !.resp = @ + 1]
      [] OTHER -> ThenError([tk EXCEPT !.resp = @ + 1], "s_done")

Turns(tk) == IF tk.resp < MaxResponses THEN ResponseKinds \cup {"none_left"}
             ELSE {"none_left"}

\* dispatchSolution: GeneratePredictions and the first turn of the loop
dispatchSolution_Produce(t) ==
    /\ tasks[t].pc = "s_produce"
    /\ \/ /\ faults < MaxFaults
          /\ faults' = faults + 1
          /\ SetTask(t, RPCFailed(tasks[t]))
       \/ /\ \E kind \in Turns(tasks[t]) : SetTask(t, LoopTurn(tasks[t], kind))
          /\ UNCHANGED faults
    /\ UNCHANGED <<sideVars, stopSearch, reqVars, storeVars, busVars, listenVars,
                   swg, cwg, endSearch>>

\* dispatchSolution: a later turn of the loop
dispatchSolution_Response(t) ==
    /\ tasks[t].pc = "s_loop"
    /\ \E kind \in Turns(tasks[t]) : SetTask(t, LoopTurn(tasks[t], kind))
    /\ UNCHANGED <<sideVars, stopSearch, reqVars, storeVars, busVars, listenVars,
                   swg, cwg, endSearch, faults>>

\* persistSolutionResults, first write: PersistSolution(.., SolutionCompletedStatus, ..)
persistSolutionResults_Status(t) ==
    /\ tasks[t].pc = "s_results"
    /\ \E ok \in Outcomes :
        /\ Fault(ok)
        /\ PersistSolution(tasks[t].sid, SolutionCompletedStatus, ok)
        /\ SetTask(t, IF ok THEN [tasks[t] EXCEPT !.pc = "s_result_meta"]
                            ELSE ThenError(tasks[t], "s_loop"))
    /\ UNCHANGED <<sideVars, stopSearch, reqVars, reqStore, resultStore, rowStore,
                   busVars, listenVars, swg, cwg, endSearch>>

\* persistSolutionResults, second write: PersistSolutionResult
persistSolutionResults_Result(t) ==
    /\ tasks[t].pc = "s_result_meta"
    /\ \E ok \in Outcomes :
        /\ Fault(ok)
        /\ resultStore' = IF ok THEN resultStore \cup {tasks[t].sid} ELSE resultStore
        /\ SetTask(t, IF ok THEN [tasks[t] EXCEPT !.pc = "s_result_rows"]
                            ELSE ThenError(tasks[t], "s_loop"))
    /\ UNCHANGED <<sideVars, stopSearch, reqVars, reqStore, solStore, rowStore,
                   busVars, listenVars, swg, cwg, endSearch>>

\* persistSolutionResults, third write: dataStorage.PersistResult, then the send
persistSolutionResults_Rows(t) ==
    /\ tasks[t].pc = "s_result_rows"
    /\ \E ok \in Outcomes :
        /\ Fault(ok)
        /\ rowStore' = IF ok THEN rowStore \cup {tasks[t].sid} ELSE rowStore
        /\ SetTask(t, IF ok THEN ThenPublish(tasks[t], SolutionCompletedStatus, "s_loop")
                            ELSE ThenError(tasks[t], "s_loop"))
    /\ UNCHANGED <<sideVars, stopSearch, reqVars, reqStore, solStore, resultStore,
                   busVars, listenVars, swg, cwg, endSearch>>

\* s.completeSolution() and the wg.Done() of the handler goroutine
completeSolution(t) ==
    /\ tasks[t].pc = "s_done"
    /\ swg' = swg - 1
    /\ cwg' = cwg - 1
    /\ SetTask(t, [tasks[t] EXCEPT !.pc = "finished", !.resp = 0])
    /\ UNCHANGED <<sideVars, stopSearch, reqVars, storeVars, busVars, listenVars,
                   endSearch, faults>>

\* ------------------------------------------------------------ the subscriber
\* Listen, first statement: s.listener = listener, outside s.mu
Listen_SetListener ==
    /\ listenPc = "idle"
    /\ listener' = TRUE
    /\ listenPc' = "set"
    /\ UNCHANGED <<sideVars, stopSearch, reqVars, storeVars, tasks, busVars,
                   solutionChannels, swg, cwg, endSearch, faults>>

Range(f) == {f[i] : i \in DOMAIN f}

\* Listen under s.mu: a goroutine for the request channel and one for every
\* channel in s.solutionChannels; then Listen blocks on <-s.finished
Listen_Start ==
    /\ listenPc = "set"
    /\ readers' = [c \in Channels |->
                     IF c = 0 \/ c \in Range(solutionChannels)
                     THEN readers[c] + 1 ELSE readers[c]]
    /\ listenPc' = "wait"
    /\ UNCHANGED <<sideVars, stopSearch, reqVars, storeVars, tasks, chans,
                   published, held, listener, solutionChannels, swg, cwg, endSearch,
                   faults>>

RemoveAt(q, i) == SubSeq(q, 1, i - 1) \o SubSeq(q, i + 1, Len(q))

\* listenOnStatusChannel, one goroutine's turn of
\*     for { status := <-statusChannel; s.listener(status) }
\* A channel's only goroutine receives and invokes in one step: nothing else can
\* take a status of that channel in between.  Goroutines that share a channel
\* take the two statements as separate steps: one that holds no status receives,
\* one that holds a status passes it to the listener.
listenOnStatusChannel(c) ==
    /\ readers[c] > 0
    /\ IF readers[c] = 1
       THEN /\ Len(chans[c]) > 0
            /\ chans' = [chans EXCEPT ![c] = Tail(@)]
            /\ UNCHANGED held
       ELSE \/ /\ Len(chans[c]) > 0
               /\ Len(held[c]) < readers[c]
               /\ chans' = [chans EXCEPT ![c] = Tail(@)]
               /\ held' = [held EXCEPT ![c] = Append(@, Head(chans[c]))]
            \/ /\ \E i \in 1..Len(held[c]) : held' = [held EXCEPT ![c] = RemoveAt(@, i)]
               /\ UNCHANGED chans
    /\ UNCHANGED <<sideVars, stopSearch, reqVars, storeVars, tasks, published,
                   readers, listenVars, swg, cwg, endSearch, faults>>

\* ------------------------------------------------------------ specification
Next ==
    \/ PersistAndDispatch_StartSearch
    \/ persistRequestStatus
    \/ persistRequestError
    \/ RequestPublish
    \/ PersistAndDispatch_Features
    \/ PersistAndDispatch_Filters
    \/ SearchSolutions_Open
    \/ SearchSolutions_Recv
    \/ SearchSolutions_EOF
    \/ SearchSolutions_Error
    \/ SearchSolutions_Wait
    \/ waitOnSolutions
    \/ EndSearch
    \/ StopSearch
    \/ dispatchRequest_Finished
    \/ \E t \in Tasks : addSolution(t)
    \/ \E t \in Tasks : persistSolutionStatus(t)
    \/ \E t \in Tasks : persistSolutionError(t)
    \/ \E t \in Tasks : SolutionPublish(t)
    \/ \E t \in Tasks : dispatchSolution_ScoreFit(t)
    \/ \E t \in Tasks : dispatchSolution_Produce(t)
    \/ \E t \in Tasks : dispatchSolution_Response(t)
    \/ \E t \in Tasks : persistSolutionResults_Status(t)
    \/ \E t \in Tasks : persistSolutionResults_Result(t)
    \/ \E t \in Tasks : persistSolutionResults_Rows(t)
    \/ \E t \in Tasks : completeSolution(t)
    \/ Listen_SetListener
    \/ Listen_Start
    \/ \E c \in Channels : listenOnStatusChannel(c)

Spec == Init /\ [][Next]_vars

\* ------------------------------------------------- concurrent requests: scratch
\* Requests running PersistAndDispatch at the same time against one scratch
\* directory (the package variable datasetDir).

\* the output folder PersistOriginalData(datasetName, schemaFile, sourceDataFolder,
\* tmpDataFolder) writes a split to: of what the call passes only the dataset name
\* and the scratch directory can tell two calls apart (the schema file is a
\* constant, the source folder belongs to the dataset); the request id does not
\* exist before StartSearch has returned
OutputPath(datasetName, tmpDataFolder, split) == <<tmpDataFolder, datasetName, split>>

datasetDir == "scratch"

SetRequest(r, pc) == persisting' = [persisting EXCEPT ![r].pc = pc]

\* the request has entered PersistAndDispatch and its search has not ended
Running(r) == persisting[r].pc \in {"fetched", "train_written", "persisted", "searching"}

\* the paths request r wrote an artefact to
WrittenBy(r) == {f.path : f \in {g \in scratchDir : g.by = r}}

\* PersistAndDispatch of a request for dataset d up to api.FetchDataset
PersistAndDispatch_FetchDataset(r) ==
    /\ persisting[r].pc = "new"
    /\ \E d \in Datasets, ok \in BOOLEAN :
          persisting' = [persisting EXCEPT
                           ![r] = [pc |-> IF ok THEN "fetched" ELSE "returned_err",
                                   dataset |-> d]]
    /\ UNCHANGED <<outsideScratch, scratchDir>>

\* PersistOriginalData: the train split is written, or the call fails
PersistOriginalData_Train(r) ==
    /\ persisting[r].pc = "fetched"
    /\ \/ /\ scratchDir' = scratchDir \cup
                 {[path |-> OutputPath(persisting[r].dataset, datasetDir, "train"),
                   by |-> r]}
          /\ SetRequest(r, "train_written")
       \/ /\ SetRequest(r, "returned_err")
          /\ UNCHANGED scratchDir
    /\ UNCHANGED outsideScratch

\* PersistOriginalData: the test split is written, or the call fails
PersistOriginalData_Test(r) ==
    /\ persisting[r].pc = "train_written"
    /\ \/ /\ scratchDir' = scratchDir \cup
                 {[path |-> OutputPath(persisting[r].dataset, datasetDir, "test"),
                   by |-> r]}
          /\ SetRequest(r, "persisted")
       \/ /\ SetRequest(r, "returned_err")
          /\ UNCHANGED scratchDir
    /\ UNCHANGED outsideScratch

\* the rest of PersistAndDispatch: the preprocessing pipeline, StartSearch, the
\* persisted request; go dispatchRequest unless one of them failed
PersistAndDispatch_Dispatch(r) ==
    /\ persisting[r].pc = "persisted"
    /\ \E ok \in BOOLEAN : SetRequest(r, IF ok THEN "searching" ELSE "returned_err")
    /\ UNCHANGED <<outsideScratch, scratchDir>>

\* dispatchRequest has sent on s.finished: the request is over
ScratchRequestFinished(r) ==
    /\ persisting[r].pc = "searching"
    /\ SetRequest(r, "finished")
    /\ UNCHANGED <<outsideScratch, scratchDir>>

ScratchNext ==
    \/ \E r \in Requests : PersistAndDispatch_FetchDataset(r)
    \/ \E r \in Requests : PersistOriginalData_Train(r)
    \/ \E r \in Requests : PersistOriginalData_Test(r)
    \/ \E r \in Requests : PersistAndDispatch_Dispatch(r)
    \/ \E r \in Requests : ScratchRequestFinished(r)

ScratchSpec == Init /\ [][ScratchNext]_vars

\* ------------------------------------------------------ data store: filters
\* One query of the postgres data store.  A cell holds a value (no NULLs); a
\* text cell is the set of the substrings it is matched against.  The table
\* is the data table joined with the rows of one result: value is the
\* predicted value of the row and target the value it is compared with.
DataTable ==
    { [d3mIndex |-> 1, region |-> "N", size |-> 0, depth |-> 0, location |-> <<0, 0>>,
       notes |-> {"a"}, value |-> 0, target |-> 0],
      [d3mIndex |-> 2, region |-> "S", size |-> 1, depth |-> 2, location |-> <<2, 1>>,
       notes |-> {"a", "b"}, value |-> 1, target |-> 0],
      [d3mIndex |-> 3, region |-> "E", size |-> 2, depth |-> 1, location |-> <<1, 2>>,
       notes |-> {"b"}, value |-> 1, target |-> 1],
      [d3mIndex |-> 4, region |-> "W", size |-> 1, depth |-> 1, location |-> <<1, 1>>,
       notes |-> {}, value |-> 0, target |-> 1] }

\* a model.Filter; a key is the sequence of its parts between ":"
Filter(key, type, mode, min, max, categories, d3mIndices) ==
    [Key |-> key, Type |-> type, Mode |-> mode, Min |-> min, Max |-> max,
     Categories |-> categories, D3mIndices |-> d3mIndices]

\* filter.Bounds of a bivariate filter: MinX = MinY = Min, MaxX = MaxY = Max
GenericFilters ==
    { Filter(<<"region">>, "categorical", m, 0, 0, c, <<>>) :
        m \in {"include", "exclude"}, c \in {<<>>, <<"N", "S">>} }
    \cup { Filter(<<"size">>, "numerical", m, 1, 2, <<>>, <<>>) : m \in {"include", "exclude"} }
    \cup { Filter(k, "bivariate", m, 0, 1, <<>>, <<>>) :
             m \in {"include", "exclude"}, k \in {<<"size", "depth">>, <<"location">>} }
    \cup { Filter(<<"d3mIndex">>, "row", m, 0, 0, <<>>, <<1, 2>>) : m \in {"include", "exclude"} }
    \cup { Filter(<<"notes">>, "text", m, 0, 0, <<"a", "b">>, <<>>) : m \in {"include", "exclude"} }
    \cup { Filter(<<"notes">>, "feature", m, 0, 0, <<"a">>, <<>>) : m \in {"include", "exclude"} }

ResultFilters ==
    { Filter(<<"target", "predicted">>, "numerical", "include", 1, 1, <<>>, <<>>),
      Filter(<<"target", "error">>, "numerical", "include", 0, 0, <<>>, <<>>) }
    \cup { Filter(<<"target", "error">>, "categorical", "include", 0, 0, <<c>>, <<>>) :
             c \in {"correct", "incorrect", "other"} }

FilterUniverse == GenericFilters \cup ResultFilters

\* keys of the synthesised result columns
IsPredictedKey(key) == key[Len(key)] = "predicted"
IsErrorKey(key) == key[Len(key)] = "error"
IsResultKey(key) == IsPredictedKey(key) \/ IsErrorKey(key)
StripKeySuffix(key) == SubSeq(key, 1, Len(key) - 1)

CorrectCategory == "correct"
IncorrectCategory == "incorrect"

\* one operand of the ORs a where string has at its top level: the operator, the
\* columns it reads and the positions ($n) of its parameters
Part(op, col, col2, args) == [op |-> op, col |-> col, col2 |-> col2, args |-> args]

formatFilterKey(key) == IF IsResultKey(key) THEN <<"result.value">> ELSE key

Compiled(wheres, params) == [wheres |-> wheres, params |-> params]

buildIncludeFilter(wheres, params, filter) ==
    LET name == formatFilterKey(filter.Key)
        n == Len(params)
    IN  CASE filter.Type = "numerical" ->
                Compiled(Append(wheres, <<Part("between", name, <<>>, <<n + 1, n + 2>>)>>),
                         params \o <<filter.Min, filter.Max>>)
          [] filter.Type = "bivariate" ->
                Compiled(Append(wheres,
                            IF Len(filter.Key) > 1
                            THEN <<Part("box", <<filter.Key[1]>>, <<filter.Key[2]>>,
                                        <<n + 1, n + 2, n + 3, n + 4>>)>>
                            ELSE <<Part("box", <<filter.Key[1], 2>>, <<filter.Key[1], 1>>,
                                        <<n + 1, n + 2, n + 3, n + 4>>)>>),
                         params \o <<filter.Min, filter.Max, filter.Min, filter.Max>>)
          [] filter.Type = "categorical" ->
                Compiled(Append(wheres,
                            <<Part("in", name, <<>>,
                                   [i \in 1..Len(filter.Categories) |-> n + i])>>),
                         params \o filter.Categories)
          [] filter.Type = "row" ->
                Compiled(Append(wheres,
                            <<Part("in", <<"d3mIndex">>, <<>>,
                                   [i \in 1..Len(filter.D3mIndices) |-> n + i])>>),
                         params \o filter.D3mIndices)
          [] filter.Type \in {"feature", "text"} ->
                Compiled(wheres \o [i \in 1..Len(filter.Categories) |->
                                       <<Part("match", name, <<>>, <<n + i>>)>>],
                         params \o filter.Categories)
          [] OTHER -> Compiled(wheres, params)

buildExcludeFilter(wheres, params, filter) ==
    LET name == formatFilterKey(filter.Key)
        n == Len(params)
    IN  CASE filter.Type = "numerical" ->
                Compiled(Append(wheres, <<Part("outside", name, <<>>, <<n + 1, n + 2>>)>>),
                         params \o <<filter.Min, filter.Max>>)
          [] filter.Type = "bivariate" ->
                Compiled(Append(wheres,
                            IF Len(filter.Key) > 1
                            THEN <<Part("outside", <<filter.Key[1]>>, <<>>, <<n + 1, n + 2>>),
                                   Part("outside", <<filter.Key[2]>>, <<>>, <<n + 3, n + 4>>)>>
                            ELSE <<Part("outside", <<filter.Key[1], 2>>, <<>>, <<n + 1, n + 2>>),
                                   Part("outside", <<filter.Key[1], 1>>, <<>>, <<n + 3, n + 4>>)>>),
                         params \o <<filter.Min, filter.Max, filter.Min, filter.Max>>)
          [] filter.Type = "categorical" ->
                Compiled(Append(wheres,
                            <<Part("not_in", name, <<>>,
                                   [i \in 1..Len(filter.Categories) |-> n + i])>>),
                         params \o filter.Categories)
          [] filter.Type = "row" ->
                Compiled(Append(wheres,
                            <<Part("not_in", <<"d3mIndex">>, <<>>,
                                   [i \in 1..Len(filter.D3mIndices) |-> n + i])>>),
                         params \o filter.D3mIndices)
          [] filter.Type \in {"feature", "text"} ->
                Compiled(wheres \o [i \in 1..Len(filter.Categories) |->
                                       <<Part("not_match", name, <<>>, <<n + i>>)>>],
                         params \o filter.Categories)
          [] OTHER -> Compiled(wheres, params)

RECURSIVE buildFilteredQueryWhere(_, _, _)
buildFilteredQueryWhere(wheres, params, filters) ==
    IF filters = <<>> THEN Compiled(wheres, params)
    ELSE LET filter == Head(filters)
             c == CASE filter.Mode = "include" -> buildIncludeFilter(wheres, params, filter)
                    [] filter.Mode = "exclude" -> buildExcludeFilter(wheres, params, filter)
                    [] OTHER -> Compiled(wheres, params)
         IN  buildFilteredQueryWhere(c.wheres, c.params, Tail(filters))

\* what a bound function returns besides its error
Built(err, wheres, params) == [err |-> err, wheres |-> wheres, params |-> params]

\* op stays "" unless a category is one of the two well known ones; the first
\* of them decides
RECURSIVE CorrectnessOp(_)
CorrectnessOp(categories) ==
    IF categories = <<>> THEN ""
    ELSE IF Head(categories) = CorrectCategory THEN "="
    ELSE IF Head(categories) = IncorrectCategory THEN "!="
    ELSE CorrectnessOp(Tail(categories))

\* getResultTargetName succeeds; with op = "" the function returns nil, nil and
\* the nil error
buildCorrectnessResultWhere(wheres, params, resultFilter) ==
    LET op == CorrectnessOp(resultFilter.Categories)
    IN  IF op = "" THEN Built(FALSE, <<>>, <<>>)
        ELSE Built(FALSE,
                   Append(wheres, <<Part(IF op = "=" THEN "value_eq" ELSE "value_ne",
                                        <<"result.value">>, <<"target">>, <<>>)>>),
                   params)

buildErrorResultWhere(wheres, params, residualFilter) ==
    LET n == Len(params)
    IN  Built(FALSE,
              Append(wheres, <<Part("error_between", StripKeySuffix(residualFilter.Key),
                                    <<>>, <<n + 1, n + 2>>)>>),
              params \o <<residualFilter.Min, residualFilter.Max>>)

buildPredictedResultWhere(wheres, params, resultFilter) ==
    LET c == buildFilteredQueryWhere(wheres, params, <<resultFilter>>)
    IN  Built(FALSE, c.wheres, c.params)

\* the filters struct: a nil pointer is the empty sequence, a set one a sequence
\* holding the filter
RECURSIVE splitFiltersFrom(_, _)
splitFiltersFrom(filters, acc) ==
    IF filters = <<>> THEN acc
    ELSE LET filter == Head(filters)
         IN  splitFiltersFrom(Tail(filters),
                 IF IsPredictedKey(filter.Key)
                 THEN [acc EXCEPT !.predictedFilter = <<filter>>]
                 ELSE IF IsErrorKey(filter.Key)
                 THEN IF filter.Type = "numerical"
                      THEN [acc EXCEPT !.residualFilter = <<filter>>]
                      ELSE IF filter.Type = "categorical"
                      THEN [acc EXCEPT !.correctnessFilter = <<filter>>]
                      ELSE acc
                 ELSE [acc EXCEPT !.genericFilters = Append(@, filter)])

splitFilters(params) ==
    splitFiltersFrom(params.Filters,
                     [genericFilters |-> <<>>, predictedFilter |-> <<>>,
                      residualFilter |-> <<>>, correctnessFilter |-> <<>>])

buildResultQueryFilters(params) ==
    LET filters == splitFilters(params)
        c == buildFilteredQueryWhere(<<>>, <<>>, filters.genericFilters)
    IN  IF filters.predictedFilter # <<>>
        THEN buildPredictedResultWhere(c.wheres, c.params, filters.predictedFilter[1])
        ELSE IF filters.correctnessFilter # <<>>
        THEN buildCorrectnessResultWhere(c.wheres, c.params, filters.correctnessFilter[1])
        ELSE IF filters.residualFilter # <<>>
        THEN buildErrorResultWhere(c.wheres, c.params, filters.residualFilter[1])
        ELSE Built(FALSE, c.wheres, c.params)

\* ---- the database's side: evaluation of the query text
\* the cell of a row a column expression names
Col(row, name) ==
    CASE name = <<"region">> -> row.region
      [] name = <<"size">> -> row.size
      [] name = <<"depth">> -> row.depth
      [] name = <<"notes">> -> row.notes
      [] name = <<"d3mIndex">> -> row.d3mIndex
      [] name = <<"location", 1>> -> row.location[1]
      [] name = <<"location", 2>> -> row.location[2]
      [] name = <<"result.value">> -> row.value
      [] name = <<"target">> -> row.target

Between(v, lo, hi) == v >= lo /\ v <= hi

EvalPart(part, params, row) ==
    LET a(i) == params[part.args[i]]
        listed == {params[part.args[i]] : i \in DOMAIN part.args}
    IN  CASE part.op = "between" -> Between(Col(row, part.col), a(1), a(2))
          [] part.op = "outside" -> ~Between(Col(row, part.col), a(1), a(2))
          [] part.op = "box" -> /\ Between(Col(row, part.col), a(1), a(2))
                                /\ Between(Col(row, part.col2), a(3), a(4))
          [] part.op = "in" -> Col(row, part.col) \in listed
          [] part.op = "not_in" -> Col(row, part.col) \notin listed
          [] part.op = "match" -> a(1) \in Col(row, part.col)
          [] part.op = "not_match" -> a(1) \notin Col(row, part.col)
          [] part.op = "value_eq" -> Col(row, part.col) = Col(row, part.col2)
          [] part.op = "value_ne" -> Col(row, part.col) # Col(row, part.col2)
          [] part.op = "error_between" ->
                Between(row.value - Col(row, part.col), a(1), a(2))

\* strings.Join(wheres, " AND "): the operands in order, each with the connective
\* that follows it in the text
Operands(where) == [i \in 1..Len(where) |-> [part |-> where[i], orNext |-> i < Len(where)]]

RECURSIVE JoinAnd(_)
JoinAnd(wheres) == IF wheres = <<>> THEN <<>> ELSE Operands(Head(wheres)) \o JoinAnd(Tail(wheres))

\* AND binds tighter than OR: the text is the OR of its runs of ANDed operands
RECURSIVE EvalText(_, _, _, _)
EvalText(text, params, row, run) ==
    LET now == run /\ EvalPart(Head(text).part, params, row)
    IN  IF Len(text) = 1 THEN now
        ELSE IF Head(text).orNext THEN now \/ EvalText(Tail(text), params, row, TRUE)
        ELSE EvalText(Tail(text), params, row, now)

\* the statement is rejected: IN () is a syntax error, and the data table alone
\* has no result.value column
Rejected(wheres, joined) ==
    \E i \in DOMAIN wheres : \E j \in DOMAIN wheres[i] :
        \/ wheres[i][j].op \in {"in", "not_in"} /\ wheres[i][j].args = <<>>
        \/ ~joined /\ wheres[i][j].col = <<"result.value">>

\* ORDER BY d3mIndex LIMIT size
Limit(rows, size) ==
    {r \in rows : Cardinality({q \in rows : q.d3mIndex < r.d3mIndex}) < size}

Returned(call, invert, err, rows, c) ==
    [call |-> call, invert |-> invert, err |-> err, rows |-> rows,
     wheres |-> c.wheres, params |-> c.params]

\* FetchData: the metadata and the row count are fetched without error
FetchData(params, invert) ==
    LET c == buildFilteredQueryWhere(<<>>, <<>>, params.Filters)
        selected == {row \in DataTable :
                        c.wheres = <<>> \/
                        (EvalText(JoinAnd(c.wheres), c.params, row, TRUE) # invert)}
    IN  IF c.wheres = <<>> /\ invert THEN Returned("FetchData", invert, FALSE, {}, c)
        ELSE IF Rejected(c.wheres, FALSE) THEN Returned("FetchData", invert, TRUE, {}, c)
        ELSE Returned("FetchData", invert, FALSE,
                      IF params.Size > 0 THEN Limit(selected, params.Size) ELSE selected, c)

\* the rows a query over the joined result selects with the wheres of
\* buildResultQueryFilters (fetchHistogramByResult: WHERE result_id = $n AND wheres)
FetchByResult(params) ==
    LET c == buildResultQueryFilters(params)
    IN  IF c.err \/ Rejected(c.wheres, TRUE)
        THEN Returned("FetchByResult", FALSE, TRUE, {}, c)
        ELSE Returned("FetchByResult", FALSE, FALSE,
                      {row \in DataTable :
                          c.wheres = <<>> \/ EvalText(JoinAnd(c.wheres), c.params, row, TRUE)},
                      c)

FilterSeqs == UNION {[1..n -> FilterUniverse] : n \in 0..MaxFilters}

FilterInit ==
    /\ EngineInit
    /\ SetTypeIdle
    /\ SubmitIdle
    /\ StartupIdle
    /\ BuilderIdle
    /\ ParserIdle
    /\ ExtremaIdle
    /\ ScratchIdle
    /\ ResultIdle
    /\ filterParams \in [Filters : FilterSeqs, Size : {0, MaxSize}]
    /\ fetched = NotFetched

FetchDataCall ==
    /\ \E invert \in BOOLEAN : fetched' = FetchData(filterParams, invert)
    /\ UNCHANGED <<outsideFilter, filterParams>>

FetchByResultCall ==
    /\ fetched' = FetchByResult(filterParams)
    /\ UNCHANGED <<outsideFilter, filterParams>>

FilterNext == FetchDataCall \/ FetchByResultCall

FilterSpec == FilterInit /\ [][FilterNext]_vars

\* --------------------------------------------------- data store: result rows
\* PersistResult called for one result file, once and again (dispatchSolution
\* calls it for every completed produce response, with result_id made from the
\* file's URI).

\* an index cell of the file: a decimal integer, a decimal fraction (its value in
\* tenths) or text that is no number
IndexCells ==
    { [kind |-> "int", tenths |-> 10], [kind |-> "int", tenths |-> 20],
      [kind |-> "float", tenths |-> 15], [kind |-> "text", tenths |-> 0] }

\* the files: up to MaxRecords data records <<index, value>> after the header
ResultFiles == UNION {[1..n -> IndexCells \X {"v"}] : n \in 0..MaxRecords}

\* strconv.ParseInt, and on its error strconv.ParseFloat and int64(..)
ParseIndex(cell) ==
    IF cell.kind = "int" THEN [ok |-> TRUE, val |-> cell.tenths \div 10]
    ELSE IF cell.kind = "float" THEN [ok |-> TRUE, val |-> cell.tenths \div 10]
    ELSE [ok |-> FALSE, val |-> 0]

resultURI == "uri"

\* executeInsertResultStatement: a plain INSERT. It fails when the database
\* fails, and on a table keyed by (result_id, index) when the key is there
KeyTaken(resultID, index) ==
    /\ resultTable.keyed
    /\ \E k \in DOMAIN resultTable.rows :
          resultTable.rows[k].result_id = resultID /\ resultTable.rows[k].index = index

\* the call returns: the first call's outcome is kept
ReturnFrom(pc) ==
    [ingest EXCEPT !.pc = pc, !.first = IF ingest.calls = 1 THEN pc ELSE @]

\* PersistResult up to the loop: the file is opened and read, the target name
\* translated; any of it may fail
PersistResult_Read ==
    /\ ingest.pc \in {"idle", "returned_nil", "returned_err"}
    /\ ingest.calls < MaxIngests
    /\ \E ok \in BOOLEAN :
          ingest' = IF ok THEN [ingest EXCEPT !.pc = "rows", !.i = 1, !.calls = @ + 1]
                    ELSE [ingest EXCEPT !.pc = "returned_err", !.calls = @ + 1,
                                        !.first = IF ingest.calls = 0
                                                  THEN "returned_err" ELSE @]
    /\ UNCHANGED <<outsideResult, resultCsv, resultTable>>

\* one turn of the loop over the records: the index is parsed and the row inserted
PersistResult_Insert ==
    /\ ingest.pc = "rows"
    /\ ingest.i <= Len(resultCsv)
    /\ LET parsed == ParseIndex(resultCsv[ingest.i][1])
       IN  \E ok \in BOOLEAN :
              IF parsed.ok /\ ok /\ ~KeyTaken(resultURI, parsed.val)
              THEN /\ resultTable' =
                        [resultTable EXCEPT !.rows =
                            Append(@, [result_id |-> resultURI, index |-> parsed.val,
                                       target |-> "target",
                                       value |-> resultCsv[ingest.i][2]])]
                   /\ ingest' = [ingest EXCEPT !.i = @ + 1]
              ELSE /\ ingest' = ReturnFrom("returned_err")
                   /\ UNCHANGED resultTable
    /\ UNCHANGED <<outsideResult, resultCsv>>

\* the loop is over: return nil
PersistResult_Return ==
    /\ ingest.pc = "rows"
    /\ ingest.i > Len(resultCsv)
    /\ ingest' = ReturnFrom("returned_nil")
    /\ UNCHANGED <<outsideResult, resultCsv, resultTable>>

ResultInit ==
    /\ EngineInit
    /\ SetTypeIdle
    /\ SubmitIdle
    /\ StartupIdle
    /\ BuilderIdle
    /\ ParserIdle
    /\ ExtremaIdle
    /\ ScratchIdle
    /\ FilterIdle
    /\ resultCsv \in ResultFiles
    /\ resultTable \in [keyed : BOOLEAN, rows : {<<>>}]
    /\ ingest = NotIngesting

ResultNext == PersistResult_Read \/ PersistResult_Insert \/ PersistResult_Return

ResultSpec == ResultInit /\ [][ResultNext]_vars

\* ------------------------------------------------------------ ExtremaSpec
\* The buckets of a numerical histogram (api/model, Extrema) and the
\* residuals histogram the postgres storage builds on them.  A float64 is a
\* whole number of thousandths and the arithmetic on it is exact.

\* variable types; one that is not numerical is enough
Types == {"integer", "float", "categorical"}

IsFloatingPoint(typ) == typ = "float"

IsNumerical(typ) == typ \in {"integer", "float"}

Abs(x) == IF x < 0 THEN -x ELSE x

\* math.Trunc, math.Floor and math.Ceil of the quotient a/b, b > 0
Trunc(a, b) == IF a >= 0 THEN a \div b ELSE -((-a) \div b)

Floor(a, b) == a \div b

Ceil(a, b) == -((-a) \div b)

\* round of the quotient a/b, b > 0: half away from zero
round(a, b) ==
    LET t == Trunc(a, b)
    IN  IF 2 * Abs(a - t * b) >= b THEN t + (IF a < 0 THEN -1 ELSE 1) ELSE t

\* rounding towards zero where the code rounds down
truncByUnit(x, unit) == Trunc(x, unit) * unit

floorByUnit(x, unit) == Floor(x, unit) * unit

ceilByUnit(x, unit) == Ceil(x, unit) * unit

RECURSIVE Pow10FloorLog10(_, _)
\* math.Pow(10, math.Floor(math.Log10(interval))) for interval > 0: the
\* greatest power of ten not above it, sought upwards from p
Pow10FloorLog10(interval, p) ==
    IF 10 * p > interval THEN p ELSE Pow10FloorLog10(interval, 10 * p)

\* For interval = 0: Log10 is -Inf, round is 0, 0/0 is NaN, which fails both
\* comparisons, and 10 * 0 is returned.
roundInterval(interval) ==
    IF interval = 0 THEN 0
    ELSE LET round10 == Pow10FloorLog10(interval, 1)
         IN  IF interval <= 2 * round10 THEN 2 * round10
             ELSE IF interval <= 5 * round10 THEN 5 * round10
             ELSE 10 * round10

getFloatingPointInterval(e) ==
    LET rang == e.Max - e.Min
    IN  roundInterval(Abs(rang) \div maxNumBuckets)

getIntegerInterval(e) ==
    LET rang == e.Max - e.Min
    IN  IF Trunc(rang, Unit) < maxNumBuckets THEN Unit
        ELSE Ceil(rang, maxNumBuckets * Unit) * Unit

GetBucketInterval(e) ==
    IF IsFloatingPoint(e.Type) THEN getFloatingPointInterval(e)
    ELSE getIntegerInterval(e)

RECURSIVE newMin(_, _, _)
\* the loop that steps down from zero until roundedMin is covered
newMin(from, interval, roundedMin) ==
    LET next == from - interval
    IN  IF next <= roundedMin THEN next ELSE newMin(next, interval, roundedMin)

RECURSIVE newMax(_, _, _)
\* the loop that steps up from zero until roundedMax is covered
newMax(from, interval, roundedMax) ==
    LET next == from + interval
    IN  IF next >= roundedMax THEN next ELSE newMax(next, interval, roundedMax)

\* With interval 0 both roundings are NaN: no comparison with them is true,
\* neither return is taken and the first loop never breaks (returns FALSE).
GetBucketMinMax(e) ==
    LET interval == GetBucketInterval(e)
    IN  IF interval = 0 THEN [Min |-> 0, Max |-> 0, returns |-> FALSE]
        ELSE
        LET roundedMin == floorByUnit(e.Min, interval)
            roundedMax == ceilByUnit(e.Max, interval)
        IN  IF roundedMin > 0 \/ roundedMin < 0
            THEN [Min |-> roundedMin, Max |-> roundedMax, returns |-> TRUE]
            ELSE IF (-roundedMin) % interval = 0
            THEN [Min |-> roundedMin, Max |-> roundedMax, returns |-> TRUE]
            ELSE [Min |-> newMin(0, interval, roundedMin),
                  Max |-> newMax(0, interval, roundedMax), returns |-> TRUE]

\* only for an e on which GetBucketMinMax returns
GetBucketCount(e) ==
    LET interval == GetBucketInterval(e)
        rounded == GetBucketMinMax(e)
        rang == rounded.Max - rounded.Min
    IN  round(rang, interval)

SetMin(S) == CHOOSE x \in S : \A y \in S : x <= y

SetMax(S) == CHOOSE x \in S : \A y \in S : x >= y

\* MIN and MAX of the residual over the rows of the result, then parseExtrema:
\* both are null when there is no row
fetchResidualsExtrema(rows, typ) ==
    IF rows = {} THEN [NoExtrema EXCEPT !.set = TRUE, !.err = TRUE]
    ELSE [set |-> TRUE, err |-> FALSE, Type |-> typ,
          Min |-> SetMin(rows), Max |-> SetMax(rows)]

\* the bucket column "width_bucket(error, Min, Max, count) - 1" and the
\* histogram column "bucket * interval + Min"
getResidualsHistogramAggQuery(e, supplied) ==
    LET interval == GetBucketInterval(e)
        rounded == GetBucketMinMax(e)
    IN  IF ~rounded.returns
        THEN [NoHistogram EXCEPT !.state = "hung", !.supplied = supplied, !.used = e]
        ELSE [state |-> "built", supplied |-> supplied, used |-> e,
              interval |-> interval, Min |-> rounded.Min, Max |-> rounded.Max,
              count |-> GetBucketCount(e)]

\* pass nil (supplied.set = FALSE) to have the extrema fetched
fetchResidualsHistogram(rows, typ, supplied) ==
    LET fetchedExtrema == fetchResidualsExtrema(rows, typ)
    IN  IF ~supplied.set /\ fetchedExtrema.err
        THEN [NoHistogram EXCEPT !.state = "error"]
        ELSE IF ~supplied.set
        THEN getResidualsHistogramAggQuery(fetchedExtrema, FALSE)
        ELSE getResidualsHistogramAggQuery([supplied EXCEPT !.Type = typ], TRUE)

\* extrema a caller sends with the request for the summary
SuppliedExtrema ==
    {[set |-> TRUE, err |-> FALSE, Type |-> "", Min |-> p[1], Max |-> p[2]] :
        p \in {q \in ExtremaValues \X ExtremaValues : q[1] <= q[2]}}

ResidualRows == {S \in SUBSET ExtremaValues : Cardinality(S) <= MaxRows}

ExtremaInit ==
    /\ EngineInit
    /\ SetTypeIdle
    /\ SubmitIdle
    /\ StartupIdle
    /\ BuilderIdle
    /\ ParserIdle
    /\ ScratchIdle
    /\ FilterIdle
    /\ ResultIdle
    /\ targetType \in Types
    /\ residuals \in ResidualRows
    /\ extrema = NoExtrema
    /\ histogram = NoHistogram

FetchResidualsExtremaByURI ==
    /\ extrema' = fetchResidualsExtrema(residuals, targetType)
    /\ UNCHANGED <<outsideExtrema, targetType, residuals, histogram>>

FetchResidualsSummary(supplied) ==
    /\ histogram' = IF IsNumerical(targetType)
                    THEN fetchResidualsHistogram(residuals, targetType, supplied)
                    ELSE [NoHistogram EXCEPT !.state = "error"]
    /\ UNCHANGED <<outsideExtrema, targetType, residuals, extrema>>

ExtremaNext ==
    \/ FetchResidualsExtremaByURI
    \/ \E supplied \in SuppliedExtrema \cup {NoExtrema} : FetchResidualsSummary(supplied)

ExtremaSpec == ExtremaInit /\ [][ExtremaNext]_vars

\* ------------------------------------------------------------- ParserSpec
\* parseVal on one cell of a result file (api/compute/result): the peg
\* grammar of ComplexField turns the cell into tokens, Execute replays them
\* on arrayElements.  A text is a sequence of one-character strings.

Digits == {"0", "1", "2", "3", "4", "5", "6", "7", "8", "9"}

Letters == {"a", "b", "c", "d", "e", "f", "g", "h", "i", "j", "k", "l", "m",
            "n", "o", "p", "q", "r", "s", "t", "u", "v", "w", "x", "y", "z",
            "A", "B", "C", "D", "E", "F", "G", "H", "I", "J", "K", "L", "M",
            "N", "O", "P", "Q", "R", "S", "T", "U", "V", "W", "X", "Y", "Z"}

\* the rules of one character
ws == " "
comma == ","
escdquote == "\""
squote == "'"
obracket == "["
cbracket == "]"
negative == "-"
decimal_point == "."
\* the grave accent, which a string cannot hold
grave == "grave"
number == Letters \cup Digits
textdata == number \cup {" ", "!", "#", "$", "&", "%", "(", ")", "*", "+", "-",
                         ".", "/", ":", ";", "<", "=", ">", "?", "\\", "^",
                         "_", grave, "{", "|", "}", "~"}
lfcr == {"\n", "\r"}

\* the rune appended to the buffer, which no rule matches
endSymbol == "end"

\* buffer[position]
At(buf, pos) == IF pos <= Len(buf) THEN buf[pos] ELSE endSymbol

\* a rule that did not match, and one that matched up to pos with tokens
NoMatch == [ok |-> FALSE, pos |-> 0, tokens |-> <<>>]

Match(pos, tokens) == [ok |-> TRUE, pos |-> pos, tokens |-> tokens]

\* the action tokens; text is the PegText the action reads
Action0 == [action |-> "pushArray", text |-> <<>>]
Action1 == [action |-> "popArray", text |-> <<>>]
AddElementAction(text) == [action |-> "addElement", text |-> text]

RECURSIVE ManyWs(_, _)
\* ws*: the position after the blanks at pos
ManyWs(buf, pos) == IF At(buf, pos) = ws THEN ManyWs(buf, pos + 1) ELSE pos

RECURSIVE ManyOf(_, _, _)
\* class*: the position after the characters of the class at pos
ManyOf(class, buf, pos) ==
    IF At(buf, pos) \in class THEN ManyOf(class, buf, pos + 1) ELSE pos

\* value <- negative? number+ (decimal_point number+)? : the position after
\* it, or 0 when there is none at pos
value(buf, pos) ==
    LET p1 == IF At(buf, pos) = negative THEN pos + 1 ELSE pos
        p2 == ManyOf(number, buf, p1)
    IN  IF p2 = p1 THEN 0
        ELSE IF At(buf, p2) = decimal_point /\ At(buf, p2 + 1) \in number
        THEN ManyOf(number, buf, p2 + 1)
        ELSE p2

RECURSIVE ManyValues(_, _)
\* value*
ManyValues(buf, pos) ==
    IF value(buf, pos) = 0 THEN pos ELSE ManyValues(buf, value(buf, pos))

dquote_string(buf, pos) ==
    LET close == ManyOf(textdata \cup lfcr \cup {squote, obracket, cbracket, comma},
                        buf, pos + 1)
    IN  IF At(buf, pos) = escdquote /\ At(buf, close) = escdquote
        THEN Match(close + 1, <<AddElementAction(SubSeq(buf, pos + 1, close - 1))>>)
        ELSE NoMatch

RECURSIVE SquoteText(_, _)
\* (escsquote / escdquote / textdata / lf / cr / obracket / cbracket)*
SquoteText(buf, pos) ==
    IF At(buf, pos) = "\\" /\ At(buf, pos + 1) = squote THEN SquoteText(buf, pos + 2)
    ELSE IF At(buf, pos) \in textdata \cup lfcr \cup {escdquote, obracket, cbracket}
    THEN SquoteText(buf, pos + 1)
    ELSE pos

squote_string(buf, pos) ==
    LET close == SquoteText(buf, pos + 1)
    IN  IF At(buf, pos) = squote /\ At(buf, close) = squote
        THEN Match(close + 1, <<AddElementAction(SubSeq(buf, pos + 1, close - 1))>>)
        ELSE NoMatch

string(buf, pos) ==
    IF dquote_string(buf, pos).ok THEN dquote_string(buf, pos)
    ELSE squote_string(buf, pos)

RECURSIVE array(_, _)
RECURSIVE item(_, _)
RECURSIVE MoreItems(_, _)

\* item <- array / string / (<value*> Action2): it always matches
item(buf, pos) ==
    LET a == array(buf, pos)
        s == string(buf, pos)
        end == ManyValues(buf, pos)
    IN  IF a.ok THEN a
        ELSE IF s.ok THEN s
        ELSE Match(end, <<AddElementAction(SubSeq(buf, pos, end - 1))>>)

\* (comma ws* item ws*)*
MoreItems(buf, pos) ==
    IF At(buf, pos) # comma THEN Match(pos, <<>>)
    ELSE LET i == item(buf, ManyWs(buf, pos + 1))
             rest == MoreItems(buf, ManyWs(buf, i.pos))
         IN  Match(rest.pos, i.tokens \o rest.tokens)

\* array <- ws* obracket Action0 ws* (item ws* (comma ws* item ws*)*)? cbracket Action1
array(buf, pos) ==
    LET open == ManyWs(buf, pos)
        first == item(buf, ManyWs(buf, open + 1))
        more == MoreItems(buf, ManyWs(buf, first.pos))
    IN  IF At(buf, open) # obracket THEN NoMatch
        ELSE IF At(buf, more.pos) # cbracket THEN NoMatch
        ELSE Match(more.pos + 1, <<Action0>> \o first.tokens \o more.tokens \o <<Action1>>)

\* ComplexField <- array !.
ComplexField(buf) ==
    LET a == array(buf, 1)
    IN  IF a.ok /\ At(buf, a.pos) = endSymbol THEN a ELSE NoMatch

\* nodes of a nested array: an element (its text) or an array (its items)
Element(text) == [leaf |-> TRUE, text |-> text, items |-> <<>>]

Array(items) == [leaf |-> FALSE, text |-> <<>>, items |-> items]

\* the elements the runtime writes: a number, and a string it quotes
Elements == {Element(<<"1">>), Element(<<"a">>)}

RECURSIVE Arrays(_)
\* the arrays nested at most depth deep with at most MaxItems items each
Arrays(depth) ==
    LET Items == IF depth = 1 THEN Elements ELSE Elements \cup Arrays(depth - 1)
    IN  {Array(s) : s \in UNION {[1..n -> Items] : n \in 0..MaxItems}}

RECURSIVE Written(_, _)
RECURSIVE WrittenItems(_, _, _)
\* the text of a node as the runtime writes it, sep between the items
Written(node, sep) ==
    IF ~node.leaf THEN <<obracket>> \o WrittenItems(node.items, 1, sep) \o <<cbracket>>
    ELSE IF node.text[1] \in Digits THEN node.text
    ELSE <<squote>> \o node.text \o <<squote>>

WrittenItems(items, i, sep) ==
    IF i > Len(items) THEN <<>>
    ELSE (IF i > 1 THEN sep ELSE <<>>) \o Written(items[i], sep)
         \o WrittenItems(items, i + 1, sep)

Separators == {<<comma>>, <<comma, ws>>}

ParserInit ==
    /\ EngineInit
    /\ SetTypeIdle
    /\ SubmitIdle
    /\ StartupIdle
    /\ BuilderIdle
    /\ ScratchIdle
    /\ FilterIdle
    /\ ResultIdle
    /\ ExtremaIdle
    /\ written \in Arrays(MaxDepth)
    /\ \E sep \in Separators : Buffer = Written(written, sep)
    /\ field = NoField

lastIdx(stack) == Len(stack)

\* field.Init() and field.Parse(); on an error parseVal returns the cell as a string
parseArray_Parse ==
    /\ field.pc = "idle"
    /\ field' = IF ComplexField(Buffer).ok
                THEN [NoField EXCEPT !.pc = "execute", !.tokens = ComplexField(Buffer).tokens]
                ELSE [NoField EXCEPT !.pc = "string"]
    /\ UNCHANGED <<outsideParser, written, Buffer>>

\* Execute, one token at a time
pushArray ==
    /\ field.pc = "execute"
    /\ field.tokens # <<>>
    /\ Head(field.tokens).action = "pushArray"
    /\ field' = [field EXCEPT !.tokens = Tail(@), !.stack = Append(@, <<>>)]
    /\ UNCHANGED <<outsideParser, written, Buffer>>

addElement ==
    /\ field.pc = "execute"
    /\ field.tokens # <<>>
    /\ Head(field.tokens).action = "addElement"
    /\ field' = [field EXCEPT
                    !.tokens = Tail(@),
                    !.stack[lastIdx(field.stack)] =
                        Append(@, Element(Head(field.tokens).text))]
    /\ UNCHANGED <<outsideParser, written, Buffer>>

popArray ==
    /\ field.pc = "execute"
    /\ field.tokens # <<>>
    /\ Head(field.tokens).action = "popArray"
    /\ LET elements == field.stack[lastIdx(field.stack)]
           stack == SubSeq(field.stack, 1, lastIdx(field.stack) - 1)
       IN  field' = [field EXCEPT
                        !.tokens = Tail(@),
                        !.elements = elements,
                        !.stack = IF Len(stack) # 0
                                  THEN [stack EXCEPT ![lastIdx(stack)] =
                                            Append(@, Array(elements))]
                                  ELSE stack]
    /\ UNCHANGED <<outsideParser, written, Buffer>>

\* return field.arrayElements.elements, nil
parseArray_Return ==
    /\ field.pc = "execute"
    /\ field.tokens = <<>>
    /\ field' = [field EXCEPT !.pc = "array"]
    /\ UNCHANGED <<outsideParser, written, Buffer>>

ParserNext ==
    \/ parseArray_Parse
    \/ pushArray
    \/ addElement
    \/ popArray
    \/ parseArray_Return

ParserSpec == ParserInit /\ [][ParserNext]_vars

\* ------------------------------------------------------------ BuilderSpec
\* The pipeline description builder (api/pipeline).  The caller holds
\* NumSteps StepData objects and adds references to them to one builder; Add
\* and Compile are one step each.  A step has at most one hyperparameter, of
\* which only the Go type is kept.

stepInputsKey == "inputs"
pipelineInputsKey == "inputs"

\* a value of an argument: what fmt.Sprintf writes, or a text of the caller's
CallerRef == [kind |-> "caller", step |-> 0, method |-> ""]

\* "inputs.0"
InputsRef(n) == [kind |-> pipelineInputsKey, step |-> n, method |-> ""]

\* "steps.<n>.<method>"
StepsRef(n, method) == [kind |-> "steps", step |-> n, method |-> method]

\* map[string]string{} and m[k] = v
EmptyMap == [k \in {} |-> CallerRef]

MapSet(m, key, v) == [k \in DOMAIN m \cup {key} |-> IF k = key THEN v ELSE m[k]]

\* the Arguments a caller leaves in a step: nil, empty, or with inputs set
CallerArguments ==
    {[nil |-> TRUE, data |-> EmptyMap], [nil |-> FALSE, data |-> EmptyMap],
     [nil |-> FALSE, data |-> MapSet(EmptyMap, stepInputsKey, CallerRef)]}

\* Go types of the hyperparameter of a step; "" when it has none
HyperparameterTypes == {"", "int32", "int64", "bool", "string", "[]string", "float64"}

CallerOutputMethods == {<<>>, <<"produce">>, <<"fit", "produce">>}

\* the objects: object i has primitive i, or none (0)
StepDataObjects ==
    {f \in [1..NumSteps -> [Primitive : 0..NumSteps, Arguments : CallerArguments,
                            Hyperparameters : HyperparameterTypes,
                            OutputMethods : CallerOutputMethods]] :
        \A i \in 1..NumSteps : f[i].Primitive \in {0, i}}

\* the type switch on a hyperparameter: the Value it becomes, "" when the
\* type has no case
HyperparameterValue(t) ==
    CASE t = "int" -> "Int64"
      [] t = "int8" -> "Int64"
      [] t = "int16" -> "Int64"
      [] t = "int32" -> "Int64"
      [] t = "int64" -> "Int64"
      [] t = "bool" -> "Bool"
      [] t = "string" -> "String_"
      [] OTHER -> ""

BuildDescriptionStep(s) ==
    IF s.Hyperparameters # "" /\ HyperparameterValue(s.Hyperparameters) = ""
    THEN [err |-> "unhandle type", step |-> [Primitive |-> 0, Arguments |-> EmptyMap,
                                            Hyperparams |-> "", Outputs |-> <<>>]]
    ELSE [err |-> "",
          step |-> [Primitive |-> s.Primitive, Arguments |-> s.Arguments.data,
                    Hyperparams |-> HyperparameterValue(s.Hyperparameters),
                    Outputs |-> s.OutputMethods]]

\* the error of validateStep, "" when it returns the arguments (steps of the
\* model are never nil)
validateStep(data, steps, stepNumber) ==
    LET step == data[steps[stepNumber]]
    IN  IF step.Primitive = 0 THEN "missing primitive definition"
        ELSE IF step.Arguments.nil THEN "missing argument list"
        ELSE IF Len(step.OutputMethods) = 0 THEN "expected at least 1 output"
        ELSE ""

\* args[key] = v on the arguments of the object ref
SetArgument(data, ref, key, v) ==
    [data EXCEPT ![ref].Arguments.data = MapSet(@, key, v)]

RECURSIVE Connect(_, _, _)
\* the loop that connects step i and the later ones to the step before;
\* steps are numbered from 0 in the references written
Connect(data, steps, i) ==
    IF i > Len(steps) THEN [err |-> "", data |-> data]
    ELSE LET previousStep == i - 1
             previousOutput == data[steps[previousStep]].OutputMethods[1]
             err == validateStep(data, steps, i)
         IN  IF err # "" THEN [err |-> err, data |-> data]
             ELSE Connect(SetArgument(data, steps[i], stepInputsKey,
                                      StepsRef(previousStep - 1, previousOutput)),
                          steps, i + 1)

RECURSIVE BuildSteps(_, _, _)
\* the loop that builds the description steps from step i on
BuildSteps(data, steps, i) ==
    IF i > Len(steps) THEN [err |-> "", Steps |-> <<>>]
    ELSE LET builtStep == BuildDescriptionStep(data[steps[i]])
             rest == BuildSteps(data, steps, i + 1)
         IN  IF builtStep.err # "" THEN [err |-> builtStep.err, Steps |-> <<>>]
             ELSE IF rest.err # "" THEN rest
             ELSE [err |-> "", Steps |-> <<builtStep.step>> \o rest.Steps]

Failed(err, data) == [err |-> err, data |-> data, Steps |-> <<>>, Outputs |-> <<>>]

\* Compile on the steps of a builder: the error or the description, and the
\* objects as the call leaves them
CompileOf(data, steps) ==
    IF Len(steps) = 0 THEN Failed("pipeline requires at least 1 step", data)
    ELSE IF validateStep(data, steps, 1) # ""
    THEN Failed(validateStep(data, steps, 1), data)
    ELSE IF pipelineInputsKey \in DOMAIN data[steps[1]].Arguments.data
    THEN Failed("reserved for internal use", data)
    ELSE
    LET first == SetArgument(data, steps[1], stepInputsKey, InputsRef(0))
        connected == Connect(first, steps, 2)
        lastStep == Len(steps)
        lastOutput == connected.data[steps[lastStep]].OutputMethods[1]
        built == BuildSteps(connected.data, steps, 1)
    IN  IF connected.err # "" THEN Failed(connected.err, connected.data)
        ELSE IF built.err # "" THEN Failed(built.err, connected.data)
        ELSE [err |-> "", data |-> connected.data, Steps |-> built.Steps,
              Outputs |-> <<StepsRef(lastStep - 1, lastOutput)>>]

BuilderInit ==
    /\ EngineInit
    /\ SetTypeIdle
    /\ SubmitIdle
    /\ StartupIdle
    /\ ScratchIdle
    /\ FilterIdle
    /\ ResultIdle
    /\ ExtremaIdle
    /\ ParserIdle
    /\ stepData \in StepDataObjects
    /\ builder = [steps |-> <<>>]
    /\ compiled = NotCompiled

Add(step) ==
    /\ Len(builder.steps) < MaxSteps
    /\ builder' = [builder EXCEPT !.steps = Append(@, step)]
    /\ UNCHANGED <<outsideBuilder, stepData, compiled>>

Compile ==
    /\ compiled.calls < MaxCompiles
    /\ LET r == CompileOf(stepData, builder.steps)
       IN  /\ stepData' = r.data
           /\ compiled' = [calls |-> compiled.calls + 1,
                           state |-> IF r.err = "" THEN "compiled" ELSE "failed",
                           err |-> r.err, Steps |-> r.Steps, Outputs |-> r.Outputs]
    /\ UNCHANGED <<outsideBuilder, builder>>

BuilderNext ==
    \/ \E step \in 1..NumSteps : Add(step)
    \/ Compile

BuilderSpec == BuilderInit /\ [][BuilderNext]_vars

\* ------------------------------------------------------------ StartupSpec
\* The wait for the required services in main, before the storages are
\* instantiated.  The sources hold two mains: one retries the postgres client
\* itself ("retry loop"), the other calls service.WaitForService for postgres
\* and elastic ("WaitForService").  An attempt finds the service up or not.

Mains == {"retry loop", "WaitForService"}

\* servicesToWait, ranged over in any order
servicesToWait == {"postgres", "elastic"}

\* the services main needs before it goes on
Required(main) == IF main = "retry loop" THEN {"postgres"} ELSE servicesToWait

StartupInit ==
    /\ EngineInit
    /\ SetTypeIdle
    /\ SubmitIdle
    /\ ScratchIdle
    /\ FilterIdle
    /\ ResultIdle
    /\ ExtremaIdle
    /\ ParserIdle
    /\ BuilderIdle
    /\ \E main \in Mains, retryCount \in 0..MaxRetryCount, first \in servicesToWait :
          startup = [NotStarted EXCEPT
                        !.main = main,
                        !.pc = "waiting",
                        !.service = IF main = "retry loop" THEN "postgres" ELSE first,
                        !.retryCount = IF main = "retry loop" THEN defaultPGRetries
                                       ELSE retryCount]

\* one pass of the retry loop of main: the client is made (break), or the
\* error is logged and main sleeps; the exit inside the loop needs
\* i = defaultPGRetries
RetryLoop_Attempt(ok) ==
    /\ startup.main = "retry loop"
    /\ startup.pc = "waiting"
    /\ startup.i < defaultPGRetries
    /\ startup' =
           IF ok
           THEN [startup EXCEPT !.pc = "started", !.attempts = @ + 1,
                                !.reached = @ \cup {startup.service}]
           ELSE IF startup.i = defaultPGRetries
           THEN [startup EXCEPT !.pc = "exited", !.exitCode = 1, !.attempts = @ + 1]
           ELSE [startup EXCEPT !.i = @ + 1, !.attempts = @ + 1]
    /\ UNCHANGED outsideStartup

\* the loop condition fails: main goes on to instantiate the storages
RetryLoop_End ==
    /\ startup.main = "retry loop"
    /\ startup.pc = "waiting"
    /\ ~(startup.i < defaultPGRetries)
    /\ startup' = [startup EXCEPT !.pc = "started"]
    /\ UNCHANGED outsideStartup

\* one pass of the loop of WaitForService: IsUp(test), then up or a sleep
WaitForService_Attempt(isUp) ==
    /\ startup.main = "WaitForService"
    /\ startup.pc = "waiting"
    /\ startup.i < startup.retryCount /\ ~startup.up
    /\ startup' = [startup EXCEPT
                      !.up = isUp,
                      !.i = @ + 1,
                      !.attempts = @ + 1,
                      !.reached = IF isUp THEN @ \cup {startup.service}
                                  ELSE @ \ {startup.service}]
    /\ UNCHANGED outsideStartup

\* WaitForService returns and main exits on its error, waits for the next
\* service, or goes on
WaitForService_Return ==
    /\ startup.main = "WaitForService"
    /\ startup.pc = "waiting"
    /\ ~(startup.i < startup.retryCount /\ ~startup.up)
    /\ LET waited == startup.waited \cup {startup.service}
       IN  IF startup.i = startup.retryCount
           THEN startup' = [startup EXCEPT !.pc = "exited", !.exitCode = 1]
           ELSE IF waited = servicesToWait
           THEN startup' = [startup EXCEPT !.pc = "started", !.waited = waited]
           ELSE \E next \in servicesToWait \ waited :
                    startup' = [startup EXCEPT !.service = next, !.waited = waited,
                                               !.i = 0, !.up = FALSE]
    /\ UNCHANGED outsideStartup

StartupNext ==
    \/ \E ok \in BOOLEAN : RetryLoop_Attempt(ok)
    \/ RetryLoop_End
    \/ \E isUp \in BOOLEAN : WaitForService_Attempt(isUp)
    \/ WaitForService_Return

StartupSpec == StartupInit /\ [][StartupNext]_vars

\* ------------------------------------------------------------- SubmitSpec
\* One call of PersistAndDispatch from its entry to the pending request: the
\* variables of the dataset are fetched, the target is looked up among them,
\* the dataset is written out, the search is started and the request is
\* persisted.  The call returns nil, returns an error, or panics.

VariableNames == {"age", "score"}

\* the variable lists metaStorage.FetchVariables can return: distinct names,
\* each variable with a role
VariableLists ==
    {<<>>}
    \cup {<<[Name |-> n, DistilRole |-> r]>> : n \in VariableNames, r \in {"data", "metadata"}}
    \cup {<<[Name |-> p[1], DistilRole |-> rs[1]], [Name |-> p[2], DistilRole |-> rs[2]]>> :
             p \in {q \in VariableNames \X VariableNames : q[1] # q[2]},
             rs \in {"data", "metadata"} \X {"data", "metadata"}}

\* the variables that are not generated features
dataVariables(variables) == SelectSeq(variables, LAMBDA v : v.DistilRole # "metadata")

\* the loop over dataVariables: the pointer to the variable named target, nil
\* when none is
targetVariableOf(variables, target) ==
    SelectSeq(dataVariables(variables), LAMBDA v : v.Name = target)

\* allVarFilters.Variables, which FetchDataset hands back as dataset.Filters
allVarFilters(variables) ==
    [i \in 1..Len(dataVariables(variables)) |-> dataVariables(variables)[i].Name]

\* getColumnIndex: the position of the variable's name in the selection, the
\* length of the selection when it is not there; variable.Name is read on every
\* pass of the loop, which panics on a nil pointer
getColumnIndex(variable, selectedVariables) ==
    IF variable = <<>>
    THEN [panic |-> Len(selectedVariables) > 0, colIndex |-> 0]
    ELSE LET hits == {i \in 1..Len(selectedVariables) :
                          selectedVariables[i] = variable[1].Name}
         IN  [panic |-> FALSE,
              colIndex |-> IF hits = {} THEN Len(selectedVariables)
                           ELSE (CHOOSE i \in hits : \A j \in hits : i <= j) - 1]

SubmitInit ==
    /\ EngineInit
    /\ SetTypeIdle
    /\ ScratchIdle
    /\ FilterIdle
    /\ ResultIdle
    /\ ExtremaIdle
    /\ ParserIdle
    /\ BuilderIdle
    /\ StartupIdle
    /\ \E variables \in VariableLists, target \in VariableNames \cup {"absent"},
          skip \in BOOLEAN :
          /\ Len(variables) <= MaxVariables
          /\ submission = [NotSubmitted EXCEPT !.pc = "called",
                                               !.variables = variables,
                                               !.TargetFeature = target,
                                               !.SkipPreprocessing = skip]

ReturnError == submission' = [submission EXCEPT !.pc = "returned", !.returned = "error"]

\* metaStorage.FetchVariables and the two loops over its result
PersistAndDispatch_FetchVariables(ok) ==
    /\ submission.pc = "called"
    /\ IF ok
       THEN submission' =
                [submission EXCEPT
                    !.pc = "variables",
                    !.targetVariable =
                        targetVariableOf(submission.variables, submission.TargetFeature),
                    !.selected = allVarFilters(submission.variables)]
       ELSE ReturnError
    /\ UNCHANGED outsideSubmit

\* api.FetchDataset, then getColumnIndex on the target variable
PersistAndDispatch_ColumnIndex(ok) ==
    /\ submission.pc = "variables"
    /\ LET index == getColumnIndex(submission.targetVariable, submission.selected)
       IN  IF ~ok THEN ReturnError
           ELSE IF index.panic
           THEN submission' = [submission EXCEPT !.pc = "returned", !.returned = "panic"]
           ELSE submission' = [submission EXCEPT !.pc = "indexed",
                                                 !.columnIndex = index.colIndex]
    /\ UNCHANGED outsideSubmit

\* PersistOriginalData writes the splits of the dataset
PersistAndDispatch_OriginalData(ok) ==
    /\ submission.pc = "indexed"
    /\ IF ok
       THEN submission' = [submission EXCEPT !.pc = "written", !.files = TRUE]
       ELSE ReturnError
    /\ UNCHANGED outsideSubmit

\* the preprocessing pipeline, unless the client skips it, and the search
\* request
PersistAndDispatch_Preprocessing(ok) ==
    /\ submission.pc = "written"
    /\ IF ok \/ submission.SkipPreprocessing
       THEN submission' = [submission EXCEPT !.pc = "request"]
       ELSE ReturnError
    /\ UNCHANGED outsideSubmit

\* client.StartSearch opens the search
PersistAndDispatch_Search(ok) ==
    /\ submission.pc = "request"
    /\ IF ok
       THEN submission' = [submission EXCEPT !.pc = "searching", !.searches = @ + 1]
       ELSE ReturnError
    /\ UNCHANGED outsideSubmit

\* persistRequestStatus writes the pending request; the features and the
\* filters follow
PersistAndDispatch_Pending(ok) ==
    /\ submission.pc = "searching"
    /\ IF ok
       THEN submission' = [submission EXCEPT !.pc = "returned", !.pending = TRUE,
                                             !.returned = "nil"]
       ELSE ReturnError
    /\ UNCHANGED outsideSubmit

SubmitNext ==
    \/ \E ok \in BOOLEAN : PersistAndDispatch_FetchVariables(ok)
    \/ \E ok \in BOOLEAN : PersistAndDispatch_ColumnIndex(ok)
    \/ \E ok \in BOOLEAN : PersistAndDispatch_OriginalData(ok)
    \/ \E ok \in BOOLEAN : PersistAndDispatch_Preprocessing(ok)
    \/ \E ok \in BOOLEAN : PersistAndDispatch_Search(ok)
    \/ \E ok \in BOOLEAN : PersistAndDispatch_Pending(ok)

SubmitSpec == SubmitInit /\ [][SubmitNext]_vars

\* ------------------------------------------------------------ SetTypeSpec
\* The type of one variable of a dataset as the data store (postgres) and the
\* catalogue (the metadata storage) hold it, under calls of the handler that
\* updates the type.  After ingestion both hold the same type.

\* SetDataType of a storage: the type the storage holds after the call and the
\* error the call returns; a call that returns an error has changed nothing
SetDataType(current, typ, ok) ==
    IF ok THEN [now |-> typ, err |-> FALSE] ELSE [now |-> current, err |-> TRUE]

SetTypeInit ==
    /\ EngineInit
    /\ ScratchIdle
    /\ FilterIdle
    /\ ResultIdle
    /\ ExtremaIdle
    /\ ParserIdle
    /\ BuilderIdle
    /\ StartupIdle
    /\ SubmitIdle
    /\ \E typ \in Types :
          retyping = [NotRetyping EXCEPT !.dataStore = typ, !.catalogue = typ]

\* handleError: the call returns with an error response
HandleError == [retyping EXCEPT !.pc = "returned", !.returned = "error"]

\* the post parameters are parsed and the two storage clients made
VariableTypeHandler_Clients(typ, ok) ==
    /\ retyping.pc \in {"idle", "returned"}
    /\ retyping.calls < MaxSetTypes
    /\ retyping' =
           IF ok
           THEN [retyping EXCEPT !.pc = "storage", !.typ = typ, !.calls = @ + 1,
                                 !.old = retyping.catalogue, !.returned = ""]
           ELSE [HandleError EXCEPT !.typ = typ, !.calls = @ + 1,
                                    !.old = retyping.catalogue]
    /\ UNCHANGED outsideSetType

\* storage.SetDataType(dataset, field, typ)
VariableTypeHandler_Storage(ok) ==
    /\ retyping.pc = "storage"
    /\ LET set == SetDataType(retyping.dataStore, retyping.typ, ok)
       IN  retyping' =
               IF set.err THEN [HandleError EXCEPT !.dataStore = set.now]
               ELSE [retyping EXCEPT !.pc = "metadata", !.dataStore = set.now]
    /\ UNCHANGED outsideSetType

\* meta.SetDataType(dataset, field, typ)
VariableTypeHandler_Metadata(ok) ==
    /\ retyping.pc = "metadata"
    /\ LET set == SetDataType(retyping.catalogue, retyping.typ, ok)
       IN  retyping' =
               IF set.err THEN [HandleError EXCEPT !.catalogue = set.now]
               ELSE [retyping EXCEPT !.pc = "respond", !.catalogue = set.now]
    /\ UNCHANGED outsideSetType

\* the sleep, then handleJSON writes the success response or fails
VariableTypeHandler_Respond(ok) ==
    /\ retyping.pc = "respond"
    /\ retyping' = IF ok THEN [retyping EXCEPT !.pc = "returned", !.returned = "success"]
                   ELSE HandleError
    /\ UNCHANGED outsideSetType

SetTypeNext ==
    \/ \E typ \in Types, ok \in BOOLEAN : VariableTypeHandler_Clients(typ, ok)
    \/ \E ok \in BOOLEAN : VariableTypeHandler_Storage(ok)
    \/ \E ok \in BOOLEAN : VariableTypeHandler_Metadata(ok)
    \/ \E ok \in BOOLEAN : VariableTypeHandler_Respond(ok)

SetTypeSpec == SetTypeInit /\ [][SetTypeNext]_vars

\* -------------------------------------------------------------- properties
RequestTerminal == {RequestCompletedStatus, RequestErroredStatus}
TasksQuiesced == \A t \in Tasks : tasks[t].pc \in {"none", "finished"}
SearchReturned == search \in {"returned_nil", "returned_err"}

\* the progress values storage holds for the request (channel 0) or for the
\* solution whose handler owns channel c
Persisted(c) ==
    IF c = 0 THEN reqStore.rows
    ELSE IF tasks[c].sid \in SolutionIds THEN solStore[tasks[c].sid].rows ELSE {}

\* the progress value storage returns as the current one
LatestPersisted(c) ==
    IF c = 0 THEN reqStore.latest
    ELSE IF tasks[c].sid \in SolutionIds THEN solStore[tasks[c].sid].latest ELSE ""

\* statuses of channel c that were sent and not yet passed to the listener, oldest first
InFlight(c) == held[c] \o chans[c]

\* C1: every status published on a request or solution channel was written to
\* storage before it was published, so storage holds it when the event is delivered.
C1_PersistedBeforePublished ==
    \A c \in Channels : published[c] # "" => published[c] \in Persisted(c)

\* C2: on a solution's channel the statuses follow pending, running, then
\* completed or errored; errored may come at any point; nothing follows
\* completed or errored and no status is followed by an earlier one.
C2_Follows(a, b) ==
    \/ a = "" /\ b \in {SolutionPendingStatus, SolutionErroredStatus}
    \/ a = SolutionPendingStatus /\ b \in {SolutionRunningStatus, SolutionErroredStatus}
    \/ a = SolutionRunningStatus /\ b \in {SolutionCompletedStatus, SolutionErroredStatus}

C2_SolutionStatusOrder ==
    [][\A t \in Tasks :
          published'[t] # published[t] => C2_Follows(published[t], published'[t])]_vars

\* C3: at most one solution task is spawned per solution id, replays included.
C3_OneTaskPerSolutionId ==
    \A t, u \in Tasks :
        (tasks[t].pc # "none" /\ tasks[u].pc # "none" /\ tasks[t].sid = tasks[u].sid)
            => t = u

\* C4: once SearchSolutions has returned, a terminal request status is persisted
\* or published only after EndSearch has returned and every solution task has finished.
C4_TerminalAfterEndSearch ==
    (SearchReturned /\ (reqStore.rows \cap RequestTerminal # {}
                        \/ published[0] \in RequestTerminal))
        => (endSearch = "returned" /\ TasksQuiesced)

\* C5: storage never records a solution as completed while its result rows are missing.
C5_CompletedAfterRows ==
    \A i \in SolutionIds : SolutionCompletedStatus \in solStore[i].rows => i \in rowStore

\* C6: SearchSolutions has not returned, with nil or with an error, while a
\* handler it started is still running.
C6_ReturnsAfterHandlers == SearchReturned => TasksQuiesced

\* C7: a publish never waits for a subscriber: whenever the request task or a
\* solution task is at its channel send, the send can complete.
C7_PublishNeverWaits ==
    /\ reqPc = "r_send" => CanSend(0)
    /\ \A t \in Tasks : tasks[t].pc = "s_send" => CanSend(t)

\* C8: once Listen has started the listeners, every channel that holds an event
\* has a goroutine that passes it to the listener, no channel has two of them,
\* and on each channel the listener is invoked with the oldest undelivered event.
C8_DeliveredInPublicationOrder ==
    /\ [](\A c \in Channels :
            /\ readers[c] <= 1
            /\ (listenPc \in {"wait", "returned"} /\ chans[c] # <<>>) => readers[c] = 1)
    /\ [][\A c \in Channels :
            Len(InFlight(c)') < Len(InFlight(c)) => InFlight(c)' = Tail(InFlight(c))]_vars

\* a subscriber is registered and its listener has been invoked with every event
\* up to REQUEST_COMPLETED and, on a solution's channel, up to SOLUTION_COMPLETED
C8_Witness ==
    /\ listenPc \in {"wait", "returned"}
    /\ published[0] = RequestCompletedStatus /\ InFlight(0) = <<>>
    /\ \E t \in Tasks : published[t] = SolutionCompletedStatus /\ InFlight(t) = <<>>

\* C9: when a subscriber registers after statuses were published, the first event
\* it will receive on a channel (the head of the buffer) is the last persisted state.
C9_LateSubscriberSeesLatest ==
    [][(listenPc = "set" /\ listenPc' = "wait")
         => \A c \in Channels :
              chans[c] # <<>> => Head(chans[c]) = LatestPersisted(c)]_vars

\* C10: the request's persisted statuses are pending, then running, then exactly
\* one of completed and errored, and a request that stopped after a persistence
\* failure is recorded as errored.
C10_RequestLifecycle ==
    /\ RequestRunningStatus \in reqStore.rows => RequestPendingStatus \in reqStore.rows
    /\ RequestCompletedStatus \in reqStore.rows => RequestRunningStatus \in reqStore.rows
    /\ ~(RequestTerminal \subseteq reqStore.rows)
    /\ (reqPc \in {"returned_err", "done"} /\ reqStore.rows # {})
          => reqStore.rows \cap RequestTerminal # {}

\* C11: no transport failure is retried. After a transport error of the score,
\* fit or produce call of a solution its task issues no further compute RPC and
\* the solution's final status is errored; after a transport error on the search
\* stream the request's final status is errored.
C11_TransportErrorsEscalate ==
    /\ \A t \in Tasks :
          tasks[t].rpcErr =>
              /\ tasks[t].pc \in {"s_error", "s_send", "s_done", "finished"}
              /\ tasks[t].pc = "finished" =>
                    /\ published[t] = SolutionErroredStatus
                    /\ LatestPersisted(t) = SolutionErroredStatus
    /\ (search = "returned_err" /\ reqPc = "done") =>
          /\ published[0] = RequestErroredStatus
          /\ LatestPersisted(0) = RequestErroredStatus

\* C12: whenever the last event published for a request or a solution is errored,
\* storage holds an errored row for that request or solution.
C12_ErroredPersistedBeforePublished ==
    \A c \in Channels :
        published[c] \in {RequestErroredStatus, SolutionErroredStatus}
            => published[c] \in Persisted(c)

\* C13: once the user's stop has issued stop_search, no solution task is started
\* for the request, and a task that returns after the stop has published a
\* terminal status.
C13_StopEndsSpawning ==
    [][stopSearch # "no" =>
          \A t \in Tasks :
              /\ tasks[t].pc = "none" => tasks'[t].pc = "none"
              /\ (tasks[t].pc # "finished" /\ tasks'[t].pc = "finished") =>
                    published'[t] \in {SolutionCompletedStatus, SolutionErroredStatus}]_vars

\* C14: a request stopped by the user while one of its solutions was in flight
\* ends as errored: errored is its last published and its last persisted status.
C14_StoppedRequestEndsErrored ==
    (stopSearch = "in_flight" /\ reqPc = "done") =>
        /\ published[0] = RequestErroredStatus
        /\ LatestPersisted(0) = RequestErroredStatus

\* C15: two requests that are running at the same time have written no train or
\* test artefact to the same scratch output path, whatever their datasets.
C15_ScratchPathsDisjoint ==
    \A r1, r2 \in Requests :
        (r1 # r2 /\ Running(r1) /\ Running(r2)) => WrittenBy(r1) \cap WrittenBy(r2) = {}

\* C16: for one filter on a data column and no row cap, the rows FetchData
\* returns for the filter and the rows it returns for the same filter in the
\* opposite mode are disjoint and together are the whole table.
C16_IncludeExcludePartition ==
    (/\ fetched.call = "FetchData"
     /\ ~fetched.invert
     /\ filterParams.Size = 0
     /\ Len(filterParams.Filters) = 1
     /\ \A i \in DOMAIN filterParams.Filters : ~IsResultKey(filterParams.Filters[i].Key))
    => LET F == filterParams.Filters[1]
           opposite == [F EXCEPT !.Mode = IF @ = "include" THEN "exclude" ELSE "include"]
           other == FetchData([Filters |-> <<opposite>>, Size |-> 0], FALSE)
       IN  /\ ~fetched.err
           /\ ~other.err
           /\ fetched.rows \cap other.rows = {}
           /\ fetched.rows \cup other.rows = DataTable

\* C17: with at least one filter on data columns and no row cap, FetchData with
\* invert returns exactly the rows of the table that FetchData without invert
\* does not return.
C17_InvertIsComplement ==
    (/\ fetched.call = "FetchData"
     /\ fetched.invert
     /\ filterParams.Size = 0
     /\ filterParams.Filters # <<>>
     /\ \A i \in DOMAIN filterParams.Filters : ~IsResultKey(filterParams.Filters[i].Key))
    => LET plain == FetchData(filterParams, FALSE)
       IN  /\ ~fetched.err
           /\ ~plain.err
           /\ fetched.rows = DataTable \ plain.rows

\* C18: a filter set with more than one predicted, more than one residual or
\* more than one correctness filter is rejected: the result query returns an
\* error and nothing is compiled.
C18_DuplicateResultFiltersRejected ==
    LET fs == filterParams.Filters
        predicted == {i \in DOMAIN fs : IsPredictedKey(fs[i].Key)}
        residual == {i \in DOMAIN fs : IsErrorKey(fs[i].Key) /\ fs[i].Type = "numerical"}
        correctness == {i \in DOMAIN fs : IsErrorKey(fs[i].Key) /\ fs[i].Type = "categorical"}
    IN  (/\ fetched.call = "FetchByResult"
         /\ \/ Cardinality(predicted) > 1
            \/ Cardinality(residual) > 1
            \/ Cardinality(correctness) > 1)
        => fetched.err /\ fetched.wheres = <<>>

\* C19: when a result query is given generic filters together with at most one
\* predicted, one residual and one correctness filter, every row it returns is a
\* row each of the filters alone selects, the result-specific ones included.
C19_ResultFiltersAllConstrain ==
    LET fs == filterParams.Filters
        predicted == {i \in DOMAIN fs : IsPredictedKey(fs[i].Key)}
        residual == {i \in DOMAIN fs : IsErrorKey(fs[i].Key) /\ fs[i].Type = "numerical"}
        correctness == {i \in DOMAIN fs : IsErrorKey(fs[i].Key) /\ fs[i].Type = "categorical"}
        specific == predicted \cup residual \cup correctness
    IN  (/\ fetched.call = "FetchByResult"
         /\ ~fetched.err
         /\ specific # {}
         /\ specific # DOMAIN fs
         /\ Cardinality(predicted) <= 1
         /\ Cardinality(residual) <= 1
         /\ Cardinality(correctness) <= 1)
        => \A i \in specific :
              fetched.rows \subseteq FetchByResult([Filters |-> <<fs[i]>>, Size |-> 0]).rows

\* C20: when a result file whose records have distinct indices was ingested and
\* PersistResult has returned from ingesting it again, the table holds exactly
\* one row for each index of the file and no other row.
C20_IngestTwiceOneRowPerIndex ==
    LET indices == {ParseIndex(resultCsv[k][1]).val : k \in DOMAIN resultCsv}
        stored(x) == {k \in DOMAIN resultTable.rows : resultTable.rows[k].index = x}
    IN  (/\ ingest.calls = MaxIngests
         /\ ingest.first = "returned_nil"
         /\ ingest.pc \in {"returned_nil", "returned_err"}
         /\ Cardinality(indices) = Len(resultCsv))
        => /\ \A x \in indices : Cardinality(stored(x)) = 1
           /\ Len(resultTable.rows) = Cardinality(indices)

\* ------------------------------------------------- claims on ExtremaSpec
RECURSIVE Significand(_)
\* x > 0 without its trailing zeros
Significand(x) == IF x % 10 = 0 THEN Significand(x \div 10) ELSE x

\* the edges of the buckets of the histogram built
BucketEdges == {histogram.Min + k * histogram.interval : k \in 0..histogram.count}

\* the buckets were built from extrema with min < max
BuiltOnRange == histogram.state = "built" /\ histogram.used.Min < histogram.used.Max

\* C21: for every (min, max) with min < max and every numeric variable type,
\* the chosen bucket interval is 1, 2 or 5 times a power of ten.
C21_IntervalIsOneTwoFive ==
    BuiltOnRange => Significand(histogram.interval) \in {1, 2, 5}

\* C22: for every (min, max) with min < max, the floor/ceil-adjusted bucket
\* range divided by the chosen interval is a whole bucket count of at most 50.
C22_AtMostFiftyBuckets ==
    BuiltOnRange =>
        /\ (histogram.Max - histogram.Min) % histogram.interval = 0
        /\ histogram.count = (histogram.Max - histogram.Min) \div histogram.interval
        /\ histogram.count <= maxNumBuckets

C24_ResidualEdgesCover ==
    (IsNumerical(targetType) /\ residuals # {} /\ histogram.state # "none") =>
        /\ histogram.state = "built"
        /\ histogram.Min <= SetMin(residuals)
        /\ histogram.Min + histogram.count * histogram.interval >= SetMax(residuals)

\* --------------------------------------------------- claims on ParserSpec
\* C25: a well-formed nested-array cell parses to a list with exactly the
\* nesting and the element order written in the cell: every closed array is
\* attached once to its parent, in order, and the outermost array is the result.
C25_ParsesToWhatWasWritten ==
    field.pc = "array" => Array(field.elements) = written

\* -------------------------------------------------- claims on BuilderSpec
\* the step taken is a call of Compile
CompileStep == compiled'.calls = compiled.calls + 1

\* the arguments of the i-th step added, before the call
ArgumentsOf(i) == stepData[builder.steps[i]].Arguments

\* the caller has set the argument named inputs of the i-th step added
CallerSetInputs(i) ==
    /\ ~ArgumentsOf(i).nil
    /\ stepInputsKey \in DOMAIN ArgumentsOf(i).data
    /\ ArgumentsOf(i).data[stepInputsKey].kind = "caller"

\* every step added has a primitive, an argument map and an output method
StepsAreValid ==
    /\ Len(builder.steps) >= 1
    /\ \A i \in 1..Len(builder.steps) : validateStep(stepData, builder.steps, i) = ""

\* every step added has no hyperparameter or one of a type the builder takes
HyperparametersAreSupported ==
    \A i \in 1..Len(builder.steps) :
        stepData[builder.steps[i]].Hyperparameters \in {"", "int32", "int64", "bool", "string"}

\* C26: in a compiled pipeline of n >= 1 steps the steps are in the order
\* added, step 0's inputs argument is inputs.0, every later step i's inputs
\* argument is steps.<i-1>.<first output method of step i-1>, and the
\* pipeline output is the first output of the last step.
C26_StepsWiredInOrder ==
    [][(CompileStep /\ compiled'.state = "compiled") =>
        LET n == Len(builder.steps)
            D == compiled'.Steps
        IN  /\ n >= 1
            /\ Len(D) = n
            /\ \A i \in 1..n : D[i].Primitive = stepData[builder.steps[i]].Primitive
            /\ D[1].Arguments[stepInputsKey] = InputsRef(0)
            /\ \A i \in 2..n :
                   D[i].Arguments[stepInputsKey] = StepsRef(i - 2, D[i - 1].Outputs[1])
            /\ compiled'.Outputs = <<StepsRef(n - 1, D[n].Outputs[1])>>]_vars

\* C27: compilation fails with the reserved-argument error whenever a step,
\* at any position, has a caller-set argument named inputs (checked on
\* pipelines with nothing else wrong).
C27_CallerInputsRejected ==
    [][(/\ CompileStep
        /\ StepsAreValid
        /\ HyperparametersAreSupported
        /\ \E i \in 1..Len(builder.steps) : CallerSetInputs(i)) =>
        (compiled'.state = "failed" /\ compiled'.err = "reserved for internal use")]_vars

\* C28: a hyperparameter is accepted if and only if its type is int64 (an
\* integer of any width, sent as int64), bool, string or list of string;
\* one of any other type fails the compilation with the unsupported-type
\* error (checked on pipelines with nothing else wrong).
C28_HyperparameterTypes ==
    [][(/\ CompileStep
        /\ StepsAreValid
        /\ ~CallerSetInputs(1)) =>
        LET accepted == \A i \in 1..Len(builder.steps) :
                            stepData[builder.steps[i]].Hyperparameters
                                \in {"", "int", "int8", "int16", "int32", "int64",
                                     "bool", "string", "[]string"}
        IN  /\ compiled'.state = "compiled" <=> accepted
            /\ compiled'.state = "failed" => compiled'.err = "unhandle type"]_vars

\* C29: a compilation that fails has no side effects: the builder's steps
\* and every step's argument map are as they were before the call.
C29_FailedCompileChangesNothing ==
    [][(CompileStep /\ compiled'.state = "failed") =>
        (builder' = builder /\ stepData' = stepData)]_vars

\* -------------------------------------------------- claims on StartupSpec
\* C30: at startup the attempts to connect to a required dependency are
\* bounded, and when the dependency is still unreachable after the last
\* attempt the process exits with code 1 and does not go on starting up.
C30_UnreachableMeansExit ==
    /\ startup.attempts <= startup.retryCount * Cardinality(Required(startup.main))
    /\ startup.pc = "started" => Required(startup.main) \subseteq startup.reached

\* ---------------------------------------------------------------- C31
NamesOf(variables) == {variables[i].Name : i \in 1..Len(variables)}

TargetIsMissing == submission.TargetFeature \notin NamesOf(submission.variables)

\* C31: a request whose target is not among the variables of its dataset is
\* rejected with an error: the call returns an error, and no search has been
\* opened and no request persisted for it.
C31_MissingTargetRejected ==
    (submission.pc # "idle" /\ TargetIsMissing) =>
        /\ submission.searches = 0
        /\ ~submission.pending
        /\ submission.pc = "returned" => submission.returned = "error"

\* ---------------------------------------------------------------- C32
\* C32: end_search has been issued for the search only when every solution
\* task spawned for it has finished, whether SearchSolutions returned nil or
\* an error.
C32_EndSearchAfterTasks == endSearch = "returned" => TasksQuiesced

\* ---------------------------------------------------------------- C33
SolutionTerminal == {SolutionCompletedStatus, SolutionErroredStatus}

\* C33: a solution task that has returned has persisted and published a
\* terminal status (completed or errored), and once a terminal status is
\* published on a solution's channel no other status is published on it.
C33_OneTerminalStatus ==
    /\ [](\A t \in Tasks :
            tasks[t].pc = "finished" =>
                /\ published[t] \in SolutionTerminal
                /\ Persisted(t) \cap SolutionTerminal # {})
    /\ [][\A t \in Tasks :
            published[t] \in SolutionTerminal => published'[t] = published[t]]_vars

\* ---------------------------------------------------------------- C34
\* C34: no request stays pending for ever: once the request's task has come to
\* its end (PersistAndDispatch returned an error, or dispatchRequest handed its
\* result to Listen), a request that was persisted as pending is persisted as
\* completed or as errored.
C34_PendingReachesTerminal ==
    (reqPc \in {"returned_err", "done"} /\ RequestPendingStatus \in reqStore.rows)
        => reqStore.rows \cap RequestTerminal # {}

\* ---------------------------------------------------------------- C35
\* C35: at every moment each status channel, the request's and each
\* solution's, has at most one listener goroutine reading from it, however
\* Listen and the addSolution calls of the emitted solutions interleave.
C35_OneListenerPerChannel == \A c \in Channels : readers[c] <= 1

\* Listen has started its goroutines and two solutions were registered, each
\* with its own listener goroutine
C35_Witness ==
    /\ listenPc \in {"wait", "returned"}
    /\ readers[0] = 1
    /\ Len(solutionChannels) = 2
    /\ \A t \in Range(solutionChannels) : readers[t] = 1

\* ---------------------------------------------------------------- C36
\* C36: after the request has reached its terminal status and Listen has
\* returned, no listener goroutine stays blocked on a status channel: in a
\* state where Listen has returned and no step of the request, of a solution
\* task or of a listener is possible any more, no listener goroutine is left.
C36_ListenersTerminate ==
    (listenPc = "returned" /\ reqStore.rows \cap RequestTerminal # {} /\ ~ENABLED Next)
        => \A c \in Channels : readers[c] = 0

\* ---------------------------------------------------------------- C37
\* WaitForService has left its loop and is about to return
WaitForServiceReturns ==
    /\ startup.main = "WaitForService"
    /\ startup.pc = "waiting"
    /\ ~(startup.i < startup.retryCount /\ ~startup.up)

\* C37: WaitForService returns success (main does not exit on its error) if
\* and only if the heartbeat reported the service up on one of the attempts
\* made, the last one included.
C37_SuccessIffUp ==
    [][WaitForServiceReturns => ((startup'.pc # "exited") <=> startup.up)]_vars

\* ---------------------------------------------------------------- C38
IsPrefix(s, t) == Len(s) <= Len(t) /\ SubSeq(t, 1, Len(s)) = s

\* what the generic filters of the call compile to
GenericCompiled ==
    buildFilteredQueryWhere(<<>>, <<>>, splitFilters(filterParams).genericFilters)

\* C38: the predicates and parameters buildResultQueryFilters returns begin
\* with the predicates and parameters compiled from the generic filters,
\* whatever result filter (predicted, residual or correctness) was compiled
\* after them and whatever categories it carries.
C38_GenericPredicatesKept ==
    fetched.call = "FetchByResult" =>
        /\ IsPrefix(GenericCompiled.wheres, fetched.wheres)
        /\ IsPrefix(GenericCompiled.params, fetched.params)

\* ---------------------------------------------------------------- C39
\* C39: a PersistResult call that fails part-way through the file leaves none
\* of the rows it inserted in the result table: after a failed first call on
\* the empty table, the table is empty.
C39_FailedIngestLeavesNoRows ==
    (ingest.calls = 1 /\ ingest.pc = "returned_err") => resultTable.rows = <<>>

\* ---------------------------------------------------------------- C40
\* C40: whenever a call of the type handler has returned, with success or with
\* an error, the catalogue and the data store hold the same type for the
\* variable: both the new type or both the type held before the call.
C40_StoresAgreeOnType ==
    retyping.pc = "returned" =>
        /\ retyping.dataStore = retyping.catalogue
        /\ retyping.catalogue \in {retyping.old, retyping.typ}

====
